---- MODULE Spec2Model ----
(***************************************************************************)
(* Ilowa on-chain program (programs/ilowa): prediction markets with a     *)
(* plain (Market/Bet), a light (LightMarketStub/LightBetStub) and a       *)
(* compressed (CompressedMarket/CompressedBet) account layout.            *)
(*                                                                         *)
(* The model follows one market address together with the accounts that   *)
(* are derived from its key (one Bet / shielded Bet per user, the vault)  *)
(* and the platform treasury.  Every instruction is one atomic step: it   *)
(* either commits all of its effects or fails and leaves every account as *)
(* it was; the result of an instruction on given arguments in the current *)
(* state is the value of its `_err` operator ("Ok" or the error name).    *)
(*                                                                         *)
(* Lamport amounts are 64-bit (u64) and 128-bit (u128) unsigned integers. *)
(* They are represented exactly, as little-endian sequences of base-10^4  *)
(* limbs without leading zero limbs, so that checked_mul / checked_add /  *)
(* `as u64` behave as they do on the machine.                              *)
(***************************************************************************)
EXTENDS Integers, Sequences, FiniteSets, TLC

(***************************************************************************)
(* Exact unsigned arithmetic                                               *)
(***************************************************************************)
BASE == 100 * 100

RECURSIVE Trim(_)
Trim(s) ==
  IF s = <<>> THEN <<>>
  ELSE IF s[Len(s)] = 0 THEN Trim(SubSeq(s, 1, Len(s) - 1))
  ELSE s

RECURSIVE Rev(_)
Rev(s) == IF s = <<>> THEN <<>> ELSE Rev(Tail(s)) \o <<Head(s)>>

\* Big(<<1000, 0, 0>>) is the number written 1000_0000_0000.
Big(groups) == Trim(Rev(groups))

RECURSIVE FromInt(_)
FromInt(n) == IF n = 0 THEN <<>> ELSE <<n % BASE>> \o FromInt(n \div BASE)

Limb(a, i) == IF i <= Len(a) THEN a[i] ELSE 0

RECURSIVE CmpAt(_, _, _)
CmpAt(a, b, i) ==
  IF i = 0 THEN 0
  ELSE IF a[i] < b[i] THEN -1
  ELSE IF a[i] > b[i] THEN 1
  ELSE CmpAt(a, b, i - 1)

BCmp(a, b) ==
  IF Len(a) < Len(b) THEN -1
  ELSE IF Len(a) > Len(b) THEN 1
  ELSE CmpAt(a, b, Len(a))

BLe(a, b) == BCmp(a, b) <= 0
BLt(a, b) == BCmp(a, b) < 0

RECURSIVE AddC(_, _, _, _)
AddC(a, b, i, c) ==
  IF i > Len(a) /\ i > Len(b) THEN (IF c = 0 THEN <<>> ELSE <<c>>)
  ELSE <<(Limb(a, i) + Limb(b, i) + c) % BASE>>
       \o AddC(a, b, i + 1, (Limb(a, i) + Limb(b, i) + c) \div BASE)

BAdd(a, b) == AddC(a, b, 1, 0)

\* a - b for a >= b
RECURSIVE SubC(_, _, _, _)
SubC(a, b, i, c) ==
  IF i > Len(a) THEN <<>>
  ELSE IF a[i] - Limb(b, i) - c < 0
       THEN <<a[i] - Limb(b, i) - c + BASE>> \o SubC(a, b, i + 1, 1)
       ELSE <<a[i] - Limb(b, i) - c>> \o SubC(a, b, i + 1, 0)

BSub(a, b) == Trim(SubC(a, b, 1, 0))

\* a * k for one limb k
RECURSIVE MulC(_, _, _, _)
MulC(a, k, i, c) ==
  IF i > Len(a) THEN FromInt(c)
  ELSE <<(a[i] * k + c) % BASE>> \o MulC(a, k, i + 1, (a[i] * k + c) \div BASE)

BMulLimb(a, k) == Trim(MulC(a, k, 1, 0))

Shift(a) == IF a = <<>> THEN <<>> ELSE <<0>> \o a

RECURSIVE MulAcc(_, _, _)
MulAcc(a, b, i) ==
  IF i > Len(b) THEN <<>>
  ELSE BAdd(BMulLimb(a, b[i]), Shift(MulAcc(a, b, i + 1)))

BMul(a, b) == MulAcc(a, b, 1)

\* the largest q in lo .. hi-1 with d*q <= r, given d*lo <= r < d*hi
RECURSIVE Digit(_, _, _, _)
Digit(d, r, lo, hi) ==
  IF hi - lo <= 1 THEN lo
  ELSE IF BLe(BMulLimb(d, (lo + hi) \div 2), r)
       THEN Digit(d, r, (lo + hi) \div 2, hi)
       ELSE Digit(d, r, lo, (lo + hi) \div 2)

\* long division of the limbs i .. Len(n) of n by d # 0
RECURSIVE DivRec(_, _, _)
DivRec(n, d, i) ==
  IF i > Len(n) THEN [q |-> <<>>, r |-> <<>>]
  ELSE LET hi == DivRec(n, d, i + 1)
           rr == Trim(<<n[i]>> \o hi.r)
           dg == Digit(d, rr, 0, BASE)
       IN  [q |-> <<dg>> \o hi.q, r |-> BSub(rr, BMulLimb(d, dg))]

BDiv(n, d) == Trim(DivRec(n, d, 1).q)
BMod(n, d) == DivRec(n, d, 1).r

Zero == <<>>
One == <<1>>

(***************************************************************************)
(* Rust integer operations: Option<T> is <<>> (None) or <<v>> (Some(v))    *)
(***************************************************************************)
None == <<>>
Some(v) == <<v>>

U64_MAX == Big(<<1844, 6744, 737, 955, 1615>>)
U128_MAX == Big(<<340, 2823, 6692, 938, 4634, 6337, 4607, 4317, 6821, 1455>>)

\* u64::checked_add / checked_sub / checked_mul / checked_div
checked_add(a, b) == IF BLe(BAdd(a, b), U64_MAX) THEN Some(BAdd(a, b)) ELSE None
checked_sub(a, b) == IF BLe(b, a) THEN Some(BSub(a, b)) ELSE None
checked_mul(a, b) == IF BLe(BMul(a, b), U64_MAX) THEN Some(BMul(a, b)) ELSE None
checked_div(a, b) == IF b = Zero THEN None ELSE Some(BDiv(a, b))

\* u128::checked_mul / checked_div
checked_mul_u128(a, b) == IF BLe(BMul(a, b), U128_MAX) THEN Some(BMul(a, b)) ELSE None
checked_div_u128(a, b) == IF b = Zero THEN None ELSE Some(BDiv(a, b))

\* a cast to the narrower u32
as_u32(x) == BMod(x, Big(<<42, 9496, 7296>>))

\* `x as u64` of a u128: keeps the low 64 bits
as_u64(x) == BMod(x, BAdd(U64_MAX, One))

\* u32::checked_add(1) on a counter held as a small integer
U32_MAX == Big(<<42, 9496, 7295>>)
checked_add_u32(n) == IF BLt(FromInt(n), U32_MAX) THEN Some(n + 1) ELSE None

(***************************************************************************)
(* Program constants                                                       *)
(***************************************************************************)
MIN_BET == Big(<<1000, 0>>)              \* 10_000_000 lamports = 0.01 SOL
MAX_BET == Big(<<1000, 0, 0>>)           \* 100_000_000_000 lamports = 100 SOL
PLATFORM_FEE_BPS == 50
PRIVACY_FEE == Big(<<500, 0>>)           \* 5_000_000 lamports
ARCIUM_PRIVACY_FEE == Big(<<500, 0>>)    \* 5_000_000 lamports
PLATFORM_FEE_PERCENT == 15                \* tip_dj: percent of a tip
MIN_TIP == Big(<<100, 0>>)               \* 1_000_000 lamports = 0.001 SOL
ONE_YEAR == 31536000                     \* 365 * 24 * 60 * 60
PYTH_MAGIC == Big(<<27, 1284, 7316>>)    \* 0xa1b2c3d4
\* a freshness window one slot wider
MAX_PRICE_AGE_SLOTS_plus_one == 25 + 1
MAX_PRICE_AGE_SLOTS == 25

(***************************************************************************)
(* Bounds and input sets of the model                                      *)
(***************************************************************************)
MaxNow == 2                              \* the clock runs from 0 to MaxNow

Users == {"alice", "bob"}
\* the signers offered to the create and to the shielded-wager instructions
Creators == {"alice"}
ShieldedBettors == {"bob"}
DefaultPubkey == "default"               \* Pubkey::default()
SystemProgram == "system_program"        \* system_program::ID

TEN_SOL == Big(<<100, 0, 0>>)
THIRTY_SOL == Big(<<300, 0, 0>>)
\* amounts offered to the wager instructions
BetAmounts ==
  {BSub(MIN_BET, One), TEN_SOL, THIRTY_SOL, BAdd(MAX_BET, One)}
\* lengths of the question text offered to the create instructions
QuestionLens == {9, 10, 280, 281}
\* lengths of the ciphertext and of the proof offered to the shielded wagers
EncLens == {31, 80, 129}
ZkLens == {31, 64, 129}
\* oracle bindings offered to create_light_market
OracleAuthorities == {DefaultPubkey, "bob"}
Thresholds == {100}
Prices == {99, 100, 101}
\* lamports held by the users before the first instruction
InitLamports == [u \in Users |-> IF u = "alice" THEN Big(<<10, 0, 0, 0>>)
                                 ELSE Big(<<200, 0, 0>>)]

VARIABLES
  now,       \* Clock::get()?.unix_timestamp
  market,    \* the market account: NoAccount, a Market, a LightMarketStub
             \* or a CompressedMarket
  bets,      \* user -> the Bet / LightBetStub / CompressedBet account at the
             \* address derived from (market, user)
  sbets,     \* user -> the ShieldedBetAccount / ShieldedLightBetStub account
  vault,     \* lamports of the market's vault
  treasury,  \* lamports of the platform treasury
  lamports,  \* user -> lamports of the user's wallet
  arg,       \* the input under test of the single-function specifications
  shielded_pool,  \* the ShieldedPoolAggregate account at the address derived
             \* from the market
  social_recovery,  \* the SocialRecovery account at the address derived
             \* from the protected wallet
  elder_guardian,  \* the ElderGuardian account at the address derived from
             \* the protected wallet
  rate_limit  \* a RateLimitAccount

vars ==
  <<now, market, bets, sbets, vault, treasury, lamports, arg, shielded_pool,
    social_recovery, elder_guardian, rate_limit>>

NoAccount == [kind |-> "None"]

\* Clock::get()?.slot
slot == 1000 + now

\* what Account<'info, T> deserialisation reports for the account `acc`
Deser(acc, kind) ==
  IF acc.kind = "None" THEN "AccountNotInitialized"
  ELSE IF acc.kind # kind THEN "AccountDiscriminatorMismatch"
  ELSE "Ok"

\* the program is deployed, no account of it exists yet
InitAccounts ==
  /\ now = 0
  /\ market = NoAccount
  /\ bets = [u \in Users |-> NoAccount]
  /\ sbets = [u \in Users |-> NoAccount]
  /\ vault = Zero
  /\ treasury = Zero
  /\ lamports = InitLamports
  /\ shielded_pool = NoAccount
  /\ social_recovery = NoAccount
  /\ elder_guardian = NoAccount
  /\ rate_limit = NoAccount

Init == InitAccounts /\ arg = Zero

\* the cluster clock advances
Tick ==
  /\ now < MaxNow
  /\ now' = now + 1
  /\ UNCHANGED <<market, bets, sbets, vault, treasury, lamports, arg, shielded_pool, social_recovery, elder_guardian, rate_limit>>

\* the clock moves on to a later time
Advance(t) ==
  /\ t > now
  /\ now' = t
  /\ UNCHANGED <<market, bets, sbets, vault, treasury, lamports, arg, shielded_pool, social_recovery, elder_guardian, rate_limit>>

\* an instruction that failed: the transaction is rolled back
Reverted == UNCHANGED vars

\* The model follows one market address: a create instruction is about this
\* address when no market exists yet, or when it names the seeds (creator,
\* expiry) of the market that exists.
SameSeeds(kind, creator, expiry) ==
  \/ market.kind = "None"
  \/ /\ market.kind = kind
     /\ market.creator = creator
     /\ (IF kind = "Market" THEN market.expires_at ELSE market.resolve_date)
          = expiry

(***************************************************************************)
(* Plain market: create_market, place_bet, shielded_bet, resolve_market,   *)
(* claim_winnings.  Text fields, is_private, created_at, the Bet's market  *)
(* key and timestamp and the bumps are written once and never read; they   *)
(* are left out of the records.                                            *)
(***************************************************************************)

\* #[derive(Accounts)] CreateMarket: `init` of the market account
CreateMarket(creator, expires_at) ==
  IF market.kind # "None" THEN "AccountAlreadyInUse" ELSE "Ok"

\* create_market_err accepting an expiry equal to the current time
create_market_err_nonstrict(creator, question_len, expires_at) ==
  IF CreateMarket(creator, expires_at) # "Ok"
    THEN CreateMarket(creator, expires_at)
  ELSE IF ~(question_len <= 280) THEN "QuestionTooLong"
  ELSE IF ~(expires_at >= now) THEN "InvalidExpiry"
  ELSE "Ok"

create_market_err(creator, question_len, expires_at) ==
  IF CreateMarket(creator, expires_at) # "Ok"
    THEN CreateMarket(creator, expires_at)
  ELSE IF ~(question_len <= 280) THEN "QuestionTooLong"
  ELSE IF ~(expires_at > now) THEN "InvalidExpiry"
  ELSE "Ok"

\* the Market record written by create_market
create_market_record(creator, expires_at) ==
  [kind |-> "Market",
   creator |-> creator,
   status |-> "Active",
   outcome |-> None,
   yes_pool |-> Zero,
   no_pool |-> Zero,
   total_bets |-> 0,
   expires_at |-> expires_at,
   resolved_at |-> None]

create_market(creator, question_len, expires_at) ==
  /\ SameSeeds("Market", creator, expires_at)
  /\ IF create_market_err(creator, question_len, expires_at) = "Ok"
     THEN /\ market' = create_market_record(creator, expires_at)
          /\ UNCHANGED <<now, bets, sbets, vault, treasury, lamports, arg, shielded_pool, social_recovery, elder_guardian, rate_limit>>
     ELSE Reverted

\* PlaceBet without the constraint on market.status
PlaceBet_anystatus(user) ==
  IF Deser(market, "Market") # "Ok" THEN Deser(market, "Market")
  ELSE IF bets[user].kind # "None" THEN "AccountAlreadyInUse"
  ELSE "Ok"

\* #[derive(Accounts)] PlaceBet: the market is deserialised, the Bet account
\* is created (`init`), then the constraint on the market is checked
PlaceBet(user) ==
  IF Deser(market, "Market") # "Ok" THEN Deser(market, "Market")
  ELSE IF bets[user].kind # "None" THEN "AccountAlreadyInUse"
  ELSE IF ~(market.status = "Active") THEN "MarketNotActive"
  ELSE "Ok"

\* the fee divided by 1_000 instead of 10_000
place_bet_platform_fee_div1000(amount) ==
  LET product == checked_mul(amount, FromInt(PLATFORM_FEE_BPS))
  IN  IF product = None THEN None
      ELSE checked_div(product[1], FromInt(1000))

\* amount.checked_mul(PLATFORM_FEE_BPS)?.checked_div(10_000)?
place_bet_platform_fee(amount) ==
  LET product == checked_mul(amount, FromInt(PLATFORM_FEE_BPS))
  IN  IF product = None THEN None
      ELSE checked_div(product[1], FromInt(10000))

\* amount.checked_sub(platform_fee)?
place_bet_net_amount(amount, platform_fee) == checked_sub(amount, platform_fee)

\* the wager added to the pool of the other side
place_bet_pools_swapped(m, outcome, net_amount) ==
  LET pool == IF outcome THEN checked_add(m.no_pool, net_amount)
              ELSE checked_add(m.yes_pool, net_amount)
      count == checked_add_u32(m.total_bets)
  IN  IF pool = None \/ count = None THEN None
      ELSE Some([m EXCEPT !.yes_pool = IF outcome THEN @ ELSE pool[1],
                          !.no_pool = IF outcome THEN pool[1] ELSE @,
                          !.total_bets = count[1]])

\* the market after its pools and total_bets are updated; None when an
\* addition overflows
place_bet_pools(m, outcome, net_amount) ==
  LET pool == IF outcome THEN checked_add(m.yes_pool, net_amount)
              ELSE checked_add(m.no_pool, net_amount)
      count == checked_add_u32(m.total_bets)
  IN  IF pool = None \/ count = None THEN None
      ELSE Some([m EXCEPT !.yes_pool = IF outcome THEN pool[1] ELSE @,
                          !.no_pool = IF outcome THEN @ ELSE pool[1],
                          !.total_bets = count[1]])

\* the Bet record written by place_bet
place_bet_record(user, outcome, net_amount) ==
  [kind |-> "Bet", user |-> user, outcome |-> outcome, amount |-> net_amount,
   is_shielded |-> FALSE, claimed |-> FALSE]

\* the bounds with `>` and `<` in place of `>=` and `<=`
place_bet_bounds_strict(amount) ==
  IF ~BLt(MIN_BET, amount) THEN "BetTooSmall"
  ELSE IF ~BLt(amount, MAX_BET) THEN "BetTooLarge"
  ELSE "Ok"

\* require!(amount >= MIN_BET, ..); require!(amount <= MAX_BET, ..)
place_bet_bounds(amount) ==
  IF ~BLe(MIN_BET, amount) THEN "BetTooSmall"
  ELSE IF ~BLe(amount, MAX_BET) THEN "BetTooLarge"
  ELSE "Ok"

place_bet_err(user, amount, outcome) ==
  IF PlaceBet(user) # "Ok" THEN PlaceBet(user)
  ELSE IF place_bet_bounds(amount) # "Ok" THEN place_bet_bounds(amount)
  ELSE IF ~(now < market.expires_at) THEN "MarketExpired"
  ELSE LET fee == place_bet_platform_fee(amount)
           net == place_bet_net_amount(amount, fee[1])
       IN  IF fee = None THEN "ArithmeticOverflow"
           ELSE IF net = None THEN "ArithmeticOverflow"
           ELSE IF ~BLe(fee[1], lamports[user]) THEN "InsufficientLamports"
           ELSE IF ~BLe(net[1], BSub(lamports[user], fee[1]))
             THEN "InsufficientLamports"
           ELSE IF place_bet_pools(market, outcome, net[1]) = None
             THEN "ArithmeticOverflow"
           ELSE "Ok"

place_bet(user, amount, outcome) ==
  IF place_bet_err(user, amount, outcome) = "Ok"
  THEN LET fee == place_bet_platform_fee(amount)[1]
           net == place_bet_net_amount(amount, fee)[1]
       IN  /\ lamports' = [lamports EXCEPT ![user] = BSub(BSub(@, fee), net)]
           /\ treasury' = BAdd(treasury, fee)
           /\ vault' = BAdd(vault, net)
           /\ market' = place_bet_pools(market, outcome, net)[1]
           /\ bets' = [bets EXCEPT ![user] = place_bet_record(user, outcome, net)]
           /\ UNCHANGED <<now, sbets, arg, shielded_pool, social_recovery, elder_guardian, rate_limit>>
  ELSE Reverted

\* #[derive(Accounts)] ShieldedBet
ShieldedBet(user) ==
  IF Deser(market, "Market") # "Ok" THEN Deser(market, "Market")
  ELSE IF sbets[user].kind # "None" THEN "AccountAlreadyInUse"
  ELSE IF ~(market.status = "Active") THEN "MarketNotActive"
  ELSE "Ok"

shielded_bet_err(user, enc_len, zk_len, outcome) ==
  IF ShieldedBet(user) # "Ok" THEN ShieldedBet(user)
  ELSE IF ~(enc_len >= 32 /\ enc_len <= 128) THEN "InvalidEncryptedData"
  ELSE IF ~(zk_len >= 32 /\ zk_len <= 128) THEN "InvalidZkProof"
  ELSE IF ~(now < market.expires_at) THEN "MarketExpired"
  ELSE IF ~BLe(PRIVACY_FEE, lamports[user]) THEN "InsufficientLamports"
  ELSE IF checked_add_u32(market.total_bets) = None THEN "ArithmeticOverflow"
  ELSE "Ok"

\* the ShieldedBetAccount record with the wagered amount in the clear
shielded_bet_record_plaintext(user, enc_len, zk_len, outcome) ==
  [kind |-> "ShieldedBetAccount", bettor |-> user, amount |-> PRIVACY_FEE,
   encrypted_amount |-> enc_len, outcome |-> outcome, zk_proof |-> zk_len,
   resolved |-> FALSE]

\* the ShieldedBetAccount record; the byte strings are kept by their length
shielded_bet_record(user, enc_len, zk_len, outcome) ==
  [kind |-> "ShieldedBetAccount", bettor |-> user,
   encrypted_amount |-> enc_len, outcome |-> outcome, zk_proof |-> zk_len,
   resolved |-> FALSE]

shielded_bet(user, enc_len, zk_len, outcome) ==
  IF shielded_bet_err(user, enc_len, zk_len, outcome) = "Ok"
  THEN /\ lamports' = [lamports EXCEPT ![user] = BSub(@, PRIVACY_FEE)]
       /\ treasury' = BAdd(treasury, PRIVACY_FEE)
       /\ market' = [market EXCEPT
                       !.total_bets = checked_add_u32(market.total_bets)[1]]
       /\ sbets' = [sbets EXCEPT
                      ![user] = shielded_bet_record(user, enc_len, zk_len, outcome)]
       /\ UNCHANGED <<now, bets, vault, arg, shielded_pool, social_recovery, elder_guardian, rate_limit>>
  ELSE Reverted

\* ResolveMarket refusing a market that has not expired
ResolveMarket_afterexpiry(resolver) ==
  IF Deser(market, "Market") # "Ok" THEN Deser(market, "Market")
  ELSE IF ~(market.status = "Active") THEN "MarketNotActive"
  ELSE IF ~(market.creator = resolver) THEN "Unauthorized"
  ELSE IF ~(now >= market.expires_at) THEN "MarketNotExpired"
  ELSE "Ok"

\* ResolveMarket without the constraint on market.status
ResolveMarket_anystatus(resolver) ==
  IF Deser(market, "Market") # "Ok" THEN Deser(market, "Market")
  ELSE IF ~(market.creator = resolver) THEN "Unauthorized"
  ELSE "Ok"

\* #[derive(Accounts)] ResolveMarket
ResolveMarket(resolver) ==
  IF Deser(market, "Market") # "Ok" THEN Deser(market, "Market")
  ELSE IF ~(market.status = "Active") THEN "MarketNotActive"
  ELSE IF ~(market.creator = resolver) THEN "Unauthorized"
  ELSE "Ok"

resolve_market_err(resolver, outcome) == ResolveMarket(resolver)

resolve_market(resolver, outcome) ==
  IF resolve_market_err(resolver, outcome) = "Ok"
  THEN /\ market' = [market EXCEPT !.status = "Resolved",
                                   !.outcome = Some(outcome),
                                   !.resolved_at = Some(now)]
       /\ UNCHANGED <<now, bets, sbets, vault, treasury, lamports, arg, shielded_pool, social_recovery, elder_guardian, rate_limit>>
  ELSE Reverted

\* #[derive(Accounts)] ClaimWinnings: market and bet are deserialised, then
\* the constraints are checked in the order they are written
ClaimWinnings(user) ==
  IF Deser(market, "Market") # "Ok" THEN Deser(market, "Market")
  ELSE IF Deser(bets[user], "Bet") # "Ok" THEN Deser(bets[user], "Bet")
  ELSE IF ~(market.status = "Resolved") THEN "MarketNotResolved"
  ELSE IF ~(bets[user].user = user) THEN "Unauthorized"
  ELSE IF bets[user].claimed THEN "AlreadyClaimed"
  ELSE "Ok"

\* the stake alone, without the share of the losing pool
claim_winnings_payout_stake(amount, winning_pool, losing_pool) == Some(amount)

\* bet.amount.checked_add(bet.amount.checked_mul(losing_pool)?
\*                                  .checked_div(winning_pool)?)
claim_winnings_payout(amount, winning_pool, losing_pool) ==
  LET product == checked_mul(amount, losing_pool)
      share == checked_div(product[1], winning_pool)
  IN  IF product = None THEN None
      ELSE IF share = None THEN None
      ELSE checked_add(amount, share[1])

\* (winning_pool, losing_pool) of a resolved Market
claim_winnings_pools(m) ==
  IF m.outcome[1] THEN <<m.yes_pool, m.no_pool>> ELSE <<m.no_pool, m.yes_pool>>

\* the flag is left as it was
claim_winnings_mark_skip(bet) == bet

\* bet.claimed = true
claim_winnings_mark(bet) == [bet EXCEPT !.claimed = TRUE]

claim_winnings_err(user) ==
  IF ClaimWinnings(user) # "Ok" THEN ClaimWinnings(user)
  ELSE IF market.outcome = None THEN "MarketNotResolved"
  ELSE IF ~(bets[user].outcome = market.outcome[1]) THEN "BetLost"
  ELSE IF ~BLt(Zero, claim_winnings_pools(market)[1]) THEN "NoWinningBets"
  ELSE LET winnings == claim_winnings_payout(bets[user].amount,
                         claim_winnings_pools(market)[1],
                         claim_winnings_pools(market)[2])
       IN  IF winnings = None THEN "ArithmeticOverflow"
           ELSE IF ~BLe(winnings[1], vault) THEN "InsufficientLamports"
           ELSE "Ok"

claim_winnings(user) ==
  IF claim_winnings_err(user) = "Ok"
  THEN LET winnings == claim_winnings_payout(bets[user].amount,
                         claim_winnings_pools(market)[1],
                         claim_winnings_pools(market)[2])[1]
       IN  /\ vault' = BSub(vault, winnings)
           /\ lamports' = [lamports EXCEPT ![user] = BAdd(@, winnings)]
           /\ bets' = [bets EXCEPT ![user] = claim_winnings_mark(bets[user])]
           /\ UNCHANGED <<now, market, sbets, treasury, arg, shielded_pool, social_recovery, elder_guardian, rate_limit>>
  ELSE Reverted

(***************************************************************************)
(* Light market: create_light_market, place_light_bet,                     *)
(* place_shielded_light_bet, resolve_light_market,                         *)
(* resolve_light_market_oracle, claim_light_winnings.  question_hash,      *)
(* category, region, created_at, timestamps and bumps are written once and *)
(* never read; they are left out of the records.                           *)
(***************************************************************************)

\* #[derive(Accounts)] CreateLightMarket: `init` of the market account
CreateLightMarket(creator, resolve_date) ==
  IF market.kind # "None" THEN "AccountAlreadyInUse" ELSE "Ok"

create_light_market_err(creator, category, region, resolve_date) ==
  IF CreateLightMarket(creator, resolve_date) # "Ok"
    THEN CreateLightMarket(creator, resolve_date)
  ELSE IF ~(category <= 6) THEN "InvalidCategory"
  ELSE IF ~(region <= 8) THEN "InvalidRegion"
  ELSE IF ~(resolve_date > now) THEN "InvalidResolveDate"
  ELSE IF ~(resolve_date < now + ONE_YEAR) THEN "ResolveDateTooFar"
  ELSE "Ok"

\* the LightMarketStub record written by create_light_market
create_light_market_record(creator, resolve_date, oracle_authority, oracle_threshold, oracle_above) ==
  [kind |-> "LightMarketStub",
   creator |-> creator,
   resolve_date |-> resolve_date,
   yes_pool |-> Zero,
   no_pool |-> Zero,
   total_bets |-> 0,
   shielded_bet_count |-> 0,
   is_active |-> TRUE,
   resolved |-> FALSE,
   outcome |-> 0,
   oracle_authority |-> oracle_authority,
   oracle_threshold |-> oracle_threshold,
   oracle_above |-> oracle_above]

create_light_market(creator, category, region, resolve_date, oracle_authority, oracle_threshold, oracle_above) ==
  /\ SameSeeds("LightMarketStub", creator, resolve_date)
  /\ IF create_light_market_err(creator, category, region, resolve_date) = "Ok"
     THEN /\ market' = create_light_market_record(creator, resolve_date,
                         oracle_authority, oracle_threshold, oracle_above)
          /\ UNCHANGED <<now, bets, sbets, vault, treasury, lamports, arg, shielded_pool, social_recovery, elder_guardian, rate_limit>>
     ELSE Reverted

\* PlaceLightBet with `init_if_needed` in place of `init`
PlaceLightBet_reinit(bettor) ==
  IF Deser(market, "LightMarketStub") # "Ok"
    THEN Deser(market, "LightMarketStub")
  ELSE IF ~market.is_active THEN "MarketNotActive"
  ELSE "Ok"

\* #[derive(Accounts)] PlaceLightBet
PlaceLightBet(bettor) ==
  IF Deser(market, "LightMarketStub") # "Ok"
    THEN Deser(market, "LightMarketStub")
  ELSE IF bets[bettor].kind # "None" THEN "AccountAlreadyInUse"
  ELSE IF ~market.is_active THEN "MarketNotActive"
  ELSE "Ok"

\* amount.checked_mul(PLATFORM_FEE_BPS)?.checked_div(10_000)?
place_light_bet_fee(amount) ==
  LET product == checked_mul(amount, FromInt(PLATFORM_FEE_BPS))
  IN  IF product = None THEN None
      ELSE checked_div(product[1], FromInt(10000))

\* amount.checked_sub(fee)?
place_light_bet_net(amount, fee) == checked_sub(amount, fee)

\* the net stake is added to the pools of both sides
place_light_bet_pools_both(m, outcome, net) ==
  LET yes == checked_add(m.yes_pool, net)
      no == checked_add(m.no_pool, net)
      count == checked_add_u32(m.total_bets)
  IN  IF yes = None \/ no = None \/ count = None THEN None
      ELSE Some([m EXCEPT !.yes_pool = yes[1],
                          !.no_pool = no[1],
                          !.total_bets = count[1]])

\* the market after its pools and total_bets are updated
place_light_bet_pools(m, outcome, net) ==
  LET pool == IF outcome THEN checked_add(m.yes_pool, net)
              ELSE checked_add(m.no_pool, net)
      count == checked_add_u32(m.total_bets)
  IN  IF pool = None \/ count = None THEN None
      ELSE Some([m EXCEPT !.yes_pool = IF outcome THEN pool[1] ELSE @,
                          !.no_pool = IF outcome THEN @ ELSE pool[1],
                          !.total_bets = count[1]])

\* the LightBetStub record written by place_light_bet
place_light_bet_record(bettor, outcome, net) ==
  [kind |-> "LightBetStub", bettor |-> bettor, amount |-> net,
   outcome |-> outcome, claimed |-> FALSE]

place_light_bet_err(bettor, amount, outcome) ==
  IF PlaceLightBet(bettor) # "Ok" THEN PlaceLightBet(bettor)
  ELSE IF ~BLe(MIN_BET, amount) THEN "BetTooSmall"
  ELSE IF ~BLe(amount, MAX_BET) THEN "BetTooLarge"
  ELSE IF ~(now < market.resolve_date) THEN "MarketExpired"
  ELSE LET fee == place_light_bet_fee(amount)
           net == place_light_bet_net(amount, fee[1])
       IN  IF fee = None THEN "ArithmeticOverflow"
           ELSE IF net = None THEN "ArithmeticOverflow"
           ELSE IF ~BLe(fee[1], lamports[bettor]) THEN "InsufficientLamports"
           ELSE IF ~BLe(net[1], BSub(lamports[bettor], fee[1]))
             THEN "InsufficientLamports"
           ELSE IF place_light_bet_pools(market, outcome, net[1]) = None
             THEN "ArithmeticOverflow"
           ELSE "Ok"

place_light_bet(bettor, amount, outcome) ==
  IF place_light_bet_err(bettor, amount, outcome) = "Ok"
  THEN LET fee == place_light_bet_fee(amount)[1]
           net == place_light_bet_net(amount, fee)[1]
       IN  /\ lamports' = [lamports EXCEPT ![bettor] = BSub(BSub(@, fee), net)]
           /\ treasury' = BAdd(treasury, fee)
           /\ vault' = BAdd(vault, net)
           /\ market' = place_light_bet_pools(market, outcome, net)[1]
           /\ bets' = [bets EXCEPT
                         ![bettor] = place_light_bet_record(bettor, outcome, net)]
           /\ UNCHANGED <<now, sbets, arg, shielded_pool, social_recovery, elder_guardian, rate_limit>>
  ELSE Reverted

\* #[derive(Accounts)] PlaceShieldedLightBet
PlaceShieldedLightBet(bettor) ==
  IF Deser(market, "LightMarketStub") # "Ok"
    THEN Deser(market, "LightMarketStub")
  ELSE IF sbets[bettor].kind # "None" THEN "AccountAlreadyInUse"
  ELSE IF ~market.is_active THEN "MarketNotActive"
  ELSE "Ok"

place_shielded_light_bet_err(bettor, enc_len, zk_len, outcome) ==
  IF PlaceShieldedLightBet(bettor) # "Ok" THEN PlaceShieldedLightBet(bettor)
  ELSE IF ~(enc_len = 80) THEN "InvalidEncryptedData"
  ELSE IF ~(zk_len = 64) THEN "InvalidZkProof"
  ELSE IF ~(now < market.resolve_date) THEN "MarketExpired"
  ELSE IF ~BLe(ARCIUM_PRIVACY_FEE, lamports[bettor])
    THEN "InsufficientLamports"
  ELSE IF checked_add_u32(market.total_bets) = None THEN "ArithmeticOverflow"
  ELSE IF checked_add_u32(market.shielded_bet_count) = None
    THEN "ArithmeticOverflow"
  ELSE "Ok"

\* the ShieldedLightBetStub record; the byte strings are kept by their length
place_shielded_light_bet_record(bettor, enc_len, zk_len, outcome) ==
  [kind |-> "ShieldedLightBetStub", bettor |-> bettor,
   encrypted_amount |-> enc_len, outcome |-> outcome, zk_proof |-> zk_len,
   claimed |-> FALSE]

place_shielded_light_bet(bettor, enc_len, zk_len, outcome) ==
  IF place_shielded_light_bet_err(bettor, enc_len, zk_len, outcome) = "Ok"
  THEN /\ lamports' = [lamports EXCEPT ![bettor] = BSub(@, ARCIUM_PRIVACY_FEE)]
       /\ treasury' = BAdd(treasury, ARCIUM_PRIVACY_FEE)
       /\ market' = [market EXCEPT
            !.total_bets = checked_add_u32(market.total_bets)[1],
            !.shielded_bet_count = checked_add_u32(market.shielded_bet_count)[1]]
       /\ sbets' = [sbets EXCEPT ![bettor] =
            place_shielded_light_bet_record(bettor, enc_len, zk_len, outcome)]
       /\ UNCHANGED <<now, bets, vault, arg, shielded_pool, social_recovery, elder_guardian, rate_limit>>
  ELSE Reverted

\* #[derive(Accounts)] ResolveLightMarket: has_one, then the constraints
ResolveLightMarket(creator) ==
  IF Deser(market, "LightMarketStub") # "Ok"
    THEN Deser(market, "LightMarketStub")
  ELSE IF ~(market.creator = creator) THEN "Unauthorized"
  ELSE IF ~market.is_active THEN "MarketNotActive"
  ELSE IF market.resolved THEN "MarketAlreadyResolved"
  ELSE "Ok"

resolve_light_market_err(creator, outcome) ==
  IF ResolveLightMarket(creator) # "Ok" THEN ResolveLightMarket(creator)
  ELSE IF ~(now >= market.resolve_date) THEN "MarketNotExpired"
  ELSE "Ok"

\* the resolution also clears the pool of the losing side
\* light_market_resolved leaving the market active
light_market_resolved_active(m, outcome) ==
  [m EXCEPT !.resolved = TRUE, !.outcome = IF outcome THEN 1 ELSE 2]

light_market_resolved_clearing(m, outcome) ==
  [m EXCEPT !.resolved = TRUE, !.is_active = FALSE,
            !.outcome = IF outcome THEN 1 ELSE 2,
            !.yes_pool = IF outcome THEN @ ELSE Zero,
            !.no_pool = IF outcome THEN Zero ELSE @]

\* m.resolved = true; m.is_active = false; m.outcome = if outcome {1} else {2}
light_market_resolved(m, outcome) ==
  [m EXCEPT !.resolved = TRUE, !.is_active = FALSE,
            !.outcome = IF outcome THEN 1 ELSE 2]

resolve_light_market(creator, outcome) ==
  IF resolve_light_market_err(creator, outcome) = "Ok"
  THEN /\ market' = light_market_resolved(market, outcome)
       /\ UNCHANGED <<now, bets, sbets, vault, treasury, lamports, arg, shielded_pool, social_recovery, elder_guardian, rate_limit>>
  ELSE Reverted

\* read_pyth_price with the publish slot checked before the exponent
read_pyth_price_reordered(data, current_slot) ==
  IF ~(data.len >= 240) THEN <<"InvalidOracleAccount">>
  ELSE IF ~(data.magic = PYTH_MAGIC) THEN <<"InvalidOracleAccount">>
  ELSE IF ~(data.pub_slot > 0
            /\ (IF current_slot >= data.pub_slot
                THEN current_slot - data.pub_slot ELSE 0)
                 <= MAX_PRICE_AGE_SLOTS)
    THEN <<"OraclePriceStale">>
  ELSE IF ~(data.expo >= -12 /\ data.expo <= 0)
    THEN <<"InvalidOracleExponent">>
  ELSE IF ~(data.status = 1) THEN <<"OraclePriceStale">>
  ELSE <<"Ok", data.price>>

\* A price account is given by the fields read_pyth_price reads: the length of
\* its data, magic (offset 0), expo (20), agg.price (208), agg.status (224)
\* and agg.pub_slot (232).  Result: <<error>> or <<"Ok", price>>.
read_pyth_price(data, current_slot) ==
  IF ~(data.len >= 240) THEN <<"InvalidOracleAccount">>
  ELSE IF ~(data.magic = PYTH_MAGIC) THEN <<"InvalidOracleAccount">>
  ELSE IF ~(data.expo >= -12 /\ data.expo <= 0)
    THEN <<"InvalidOracleExponent">>
  ELSE IF ~(data.pub_slot > 0
            /\ (IF current_slot >= data.pub_slot
                THEN current_slot - data.pub_slot ELSE 0)
                 <= MAX_PRICE_AGE_SLOTS)
    THEN <<"OraclePriceStale">>
  ELSE IF ~(data.status = 1) THEN <<"OraclePriceStale">>
  ELSE <<"Ok", data.price>>

\* ResolveLightMarketOracle without the comparison of the signer
ResolveLightMarketOracle_anysigner(oracle_authority) ==
  IF Deser(market, "LightMarketStub") # "Ok"
    THEN Deser(market, "LightMarketStub")
  ELSE IF ~(market.oracle_authority # DefaultPubkey) THEN "OracleNotSet"
  ELSE IF market.resolved THEN "MarketAlreadyResolved"
  ELSE IF ~market.is_active THEN "MarketNotActive"
  ELSE "Ok"

\* ResolveLightMarketOracle with the resolve date as a further condition
ResolveLightMarketOracle_afterdate(oracle_authority) ==
  IF Deser(market, "LightMarketStub") # "Ok"
    THEN Deser(market, "LightMarketStub")
  ELSE IF ~(market.oracle_authority = oracle_authority) THEN "Unauthorized"
  ELSE IF ~(market.oracle_authority # DefaultPubkey) THEN "OracleNotSet"
  ELSE IF market.resolved THEN "MarketAlreadyResolved"
  ELSE IF ~market.is_active THEN "MarketNotActive"
  ELSE IF ~(now >= market.resolve_date) THEN "MarketNotExpired"
  ELSE "Ok"

\* #[derive(Accounts)] ResolveLightMarketOracle
ResolveLightMarketOracle(oracle_authority) ==
  IF Deser(market, "LightMarketStub") # "Ok"
    THEN Deser(market, "LightMarketStub")
  ELSE IF ~(market.oracle_authority = oracle_authority) THEN "Unauthorized"
  ELSE IF ~(market.oracle_authority # DefaultPubkey) THEN "OracleNotSet"
  ELSE IF market.resolved THEN "MarketAlreadyResolved"
  ELSE IF ~market.is_active THEN "MarketNotActive"
  ELSE "Ok"

\* the attested price is taken whatever account is passed as price_feed
effective_price_attested(price_feed, attested_price) ==
  <<"Ok", attested_price>>

\* the price the outcome is checked against: <<error>> or <<"Ok", price>>
effective_price(price_feed, attested_price) ==
  IF price_feed.key = SystemProgram THEN <<"Ok", attested_price>>
  ELSE read_pyth_price(price_feed, slot)

\* the comparisons with `>` and `<` in place of `>=` and `<=`
oracle_expected_strict(m, price) ==
  IF m.oracle_above THEN price > m.oracle_threshold
  ELSE price < m.oracle_threshold

\* the outcome the price dictates
oracle_expected(m, price) ==
  IF m.oracle_above THEN price >= m.oracle_threshold
  ELSE price <= m.oracle_threshold

resolve_light_market_oracle_err(oracle_authority, price_feed, attested_price, outcome) ==
  IF ResolveLightMarketOracle(oracle_authority) # "Ok"
    THEN ResolveLightMarketOracle(oracle_authority)
  ELSE IF effective_price(price_feed, attested_price)[1] # "Ok"
    THEN effective_price(price_feed, attested_price)[1]
  ELSE IF ~(outcome = oracle_expected(market,
                        effective_price(price_feed, attested_price)[2]))
    THEN "OraclePriceMismatch"
  ELSE "Ok"

resolve_light_market_oracle(oracle_authority, price_feed, attested_price, outcome) ==
  IF resolve_light_market_oracle_err(oracle_authority, price_feed,
                                     attested_price, outcome) = "Ok"
  THEN /\ market' = light_market_resolved(market, outcome)
       /\ UNCHANGED <<now, bets, sbets, vault, treasury, lamports, arg, shielded_pool, social_recovery, elder_guardian, rate_limit>>
  ELSE Reverted

\* #[derive(Accounts)] ClaimLightWinnings
ClaimLightWinnings(bettor) ==
  IF Deser(market, "LightMarketStub") # "Ok"
    THEN Deser(market, "LightMarketStub")
  ELSE IF Deser(bets[bettor], "LightBetStub") # "Ok"
    THEN Deser(bets[bettor], "LightBetStub")
  ELSE IF ~market.resolved THEN "MarketNotResolved"
  ELSE IF ~(bets[bettor].bettor = bettor) THEN "Unauthorized"
  ELSE "Ok"

\* every Bet on a resolved market counts as won
bet_won_any(m, bet) == m.outcome = 1 \/ m.outcome = 2

\* (market.outcome == 1 && bet.outcome) || (market.outcome == 2 && !bet.outcome)
bet_won(m, bet) ==
  (m.outcome = 1 /\ bet.outcome) \/ (m.outcome = 2 /\ ~bet.outcome)

\* the pool of the side that lost
light_winning_pool_swapped(m) == IF m.outcome = 1 THEN m.no_pool ELSE m.yes_pool

\* if market.outcome == 1 { market.yes_pool } else { market.no_pool }
light_winning_pool(m) == IF m.outcome = 1 THEN m.yes_pool ELSE m.no_pool

\* the 128-bit quotient bet.amount * total_pool / winning_pool
claim_light_winnings_quotient(amount, total_pool, winning_pool) ==
  LET product == checked_mul_u128(amount, total_pool)
  IN  IF product = None THEN None
      ELSE checked_div_u128(product[1], winning_pool)

\* the quotient narrowed by `as u64`
claim_light_winnings_payout(amount, total_pool, winning_pool) ==
  LET quotient == claim_light_winnings_quotient(amount, total_pool, winning_pool)
  IN  IF quotient = None THEN None ELSE Some(as_u64(quotient[1]))

\* ctx.accounts.bet.claimed = true
claim_light_winnings_mark(bet) == [bet EXCEPT !.claimed = TRUE]

claim_light_winnings_err(bettor) ==
  IF ClaimLightWinnings(bettor) # "Ok" THEN ClaimLightWinnings(bettor)
  ELSE IF bets[bettor].claimed THEN "AlreadyClaimed"
  ELSE IF ~bet_won(market, bets[bettor]) THEN "BetLost"
  ELSE LET total_pool == checked_add(market.yes_pool, market.no_pool)
           payout == claim_light_winnings_payout(bets[bettor].amount,
                       total_pool[1], light_winning_pool(market))
       IN  IF total_pool = None THEN "ArithmeticOverflow"
           ELSE IF ~BLt(Zero, light_winning_pool(market)) THEN "NoWinningBets"
           ELSE IF payout = None THEN "ArithmeticOverflow"
           ELSE IF ~BLe(payout[1], vault) THEN "InsufficientLamports"
           ELSE "Ok"

claim_light_winnings(bettor) ==
  IF claim_light_winnings_err(bettor) = "Ok"
  THEN LET payout == claim_light_winnings_payout(bets[bettor].amount,
                       checked_add(market.yes_pool, market.no_pool)[1],
                       light_winning_pool(market))[1]
       IN  /\ vault' = BSub(vault, payout)
           /\ lamports' = [lamports EXCEPT ![bettor] = BAdd(@, payout)]
           /\ bets' = [bets EXCEPT
                         ![bettor] = claim_light_winnings_mark(bets[bettor])]
           /\ UNCHANGED <<now, market, sbets, treasury, arg, shielded_pool, social_recovery, elder_guardian, rate_limit>>
  ELSE Reverted

(***************************************************************************)
(* Compressed market: create_compressed_market, place_compressed_bet       *)
(***************************************************************************)

\* #[derive(Accounts)] CreateCompressedMarket: `init` of the market account
CreateCompressedMarket(creator, resolve_date) ==
  IF market.kind # "None" THEN "AccountAlreadyInUse" ELSE "Ok"

create_compressed_market_err(creator, question_len, resolve_date) ==
  IF CreateCompressedMarket(creator, resolve_date) # "Ok"
    THEN CreateCompressedMarket(creator, resolve_date)
  ELSE IF ~(question_len >= 10 /\ question_len <= 280)
    THEN "InvalidQuestionLength"
  ELSE IF ~(resolve_date > now) THEN "InvalidResolveDate"
  ELSE IF ~(resolve_date < now + ONE_YEAR) THEN "ResolveDateTooFar"
  ELSE "Ok"

\* the record with is_active cleared
create_compressed_market_record_inactive(creator, resolve_date) ==
  [kind |-> "CompressedMarket",
   creator |-> creator,
   resolve_date |-> resolve_date,
   yes_bets |-> Zero,
   no_bets |-> Zero,
   is_active |-> FALSE,
   resolved |-> FALSE,
   outcome |-> None]

\* the CompressedMarket record written by create_compressed_market
create_compressed_market_record(creator, resolve_date) ==
  [kind |-> "CompressedMarket",
   creator |-> creator,
   resolve_date |-> resolve_date,
   yes_bets |-> Zero,
   no_bets |-> Zero,
   is_active |-> TRUE,
   resolved |-> FALSE,
   outcome |-> None]

create_compressed_market(creator, question_len, resolve_date) ==
  /\ SameSeeds("CompressedMarket", creator, resolve_date)
  /\ IF create_compressed_market_err(creator, question_len, resolve_date) = "Ok"
     THEN /\ market' = create_compressed_market_record(creator, resolve_date)
          /\ UNCHANGED <<now, bets, sbets, vault, treasury, lamports, arg, shielded_pool, social_recovery, elder_guardian, rate_limit>>
     ELSE Reverted

\* #[derive(Accounts)] PlaceCompressedBet
PlaceCompressedBet(user) ==
  IF Deser(market, "CompressedMarket") # "Ok"
    THEN Deser(market, "CompressedMarket")
  ELSE IF bets[user].kind # "None" THEN "AccountAlreadyInUse"
  ELSE IF ~market.is_active THEN "MarketNotActive"
  ELSE "Ok"

\* amount.checked_mul(PLATFORM_FEE_BPS)?.checked_div(10_000)?
place_compressed_bet_platform_fee(amount) ==
  LET product == checked_mul(amount, FromInt(PLATFORM_FEE_BPS))
  IN  IF product = None THEN None
      ELSE checked_div(product[1], FromInt(10000))

\* amount.checked_sub(platform_fee)?
place_compressed_bet_amount(amount, platform_fee) ==
  checked_sub(amount, platform_fee)

\* the market after yes_bets / no_bets is updated
place_compressed_bet_pools(m, outcome, bet_amount) ==
  LET pool == IF outcome THEN checked_add(m.yes_bets, bet_amount)
              ELSE checked_add(m.no_bets, bet_amount)
  IN  IF pool = None THEN None
      ELSE Some([m EXCEPT !.yes_bets = IF outcome THEN pool[1] ELSE @,
                          !.no_bets = IF outcome THEN @ ELSE pool[1]])

\* the CompressedBet record written by place_compressed_bet
place_compressed_bet_record(user, outcome, bet_amount) ==
  [kind |-> "CompressedBet", user |-> user, outcome |-> outcome,
   amount |-> bet_amount, claimed |-> FALSE]

place_compressed_bet_err(user, amount, outcome) ==
  IF PlaceCompressedBet(user) # "Ok" THEN PlaceCompressedBet(user)
  ELSE IF ~BLe(MIN_BET, amount) THEN "BetTooSmall"
  ELSE IF ~BLe(amount, MAX_BET) THEN "BetTooLarge"
  ELSE IF ~(now < market.resolve_date) THEN "MarketExpired"
  ELSE LET fee == place_compressed_bet_platform_fee(amount)
           net == place_compressed_bet_amount(amount, fee[1])
       IN  IF fee = None THEN "ArithmeticOverflow"
           ELSE IF net = None THEN "ArithmeticOverflow"
           ELSE IF ~BLe(fee[1], lamports[user]) THEN "InsufficientLamports"
           ELSE IF ~BLe(net[1], BSub(lamports[user], fee[1]))
             THEN "InsufficientLamports"
           ELSE IF place_compressed_bet_pools(market, outcome, net[1]) = None
             THEN "ArithmeticOverflow"
           ELSE "Ok"

place_compressed_bet(user, amount, outcome) ==
  IF place_compressed_bet_err(user, amount, outcome) = "Ok"
  THEN LET fee == place_compressed_bet_platform_fee(amount)[1]
           net == place_compressed_bet_amount(amount, fee)[1]
       IN  /\ lamports' = [lamports EXCEPT ![user] = BSub(BSub(@, fee), net)]
           /\ treasury' = BAdd(treasury, fee)
           /\ vault' = BAdd(vault, net)
           /\ market' = place_compressed_bet_pools(market, outcome, net)[1]
           /\ bets' = [bets EXCEPT
                         ![user] = place_compressed_bet_record(user, outcome, net)]
           /\ UNCHANGED <<now, sbets, arg, shielded_pool, social_recovery, elder_guardian, rate_limit>>
  ELSE Reverted

(***************************************************************************)
(* Shielded pool aggregate: init_shielded_pool, submit_shielded_aggregate. *)
(* A byte string is kept by its length and a tag standing for its content; *)
(* the pool's market key and bump are written once and are left out.       *)
(***************************************************************************)
Ciphertext(len, tag) == [len |-> len, tag |-> tag]
\* vec![]
EmptyVec == Ciphertext(0, 0)

\* #[derive(Accounts)] InitShieldedPool: market is deserialised, the pool
\* account is created, then the market's has_one is checked
InitShieldedPool(creator) ==
  IF Deser(market, "LightMarketStub") # "Ok"
    THEN Deser(market, "LightMarketStub")
  ELSE IF shielded_pool.kind # "None" THEN "AccountAlreadyInUse"
  ELSE IF ~(market.creator = creator) THEN "Unauthorized"
  ELSE "Ok"

init_shielded_pool_err(creator, mxe_authority) == InitShieldedPool(creator)

\* the ShieldedPoolAggregate record written by init_shielded_pool
init_shielded_pool_record(mxe_authority) ==
  [kind |-> "ShieldedPoolAggregate",
   mxe_authority |-> mxe_authority,
   total_shielded_bets |-> 0,
   encrypted_yes_total |-> EmptyVec,
   encrypted_no_total |-> EmptyVec,
   last_updated |-> 0,
   is_finalized |-> FALSE]

init_shielded_pool(creator, mxe_authority) ==
  IF init_shielded_pool_err(creator, mxe_authority) = "Ok"
  THEN /\ shielded_pool' = init_shielded_pool_record(mxe_authority)
       /\ UNCHANGED <<now, market, bets, sbets, vault, treasury, lamports, arg, social_recovery, elder_guardian, rate_limit>>
  ELSE Reverted

\* SubmitShieldedAggregate without the constraint on pool.is_finalized
SubmitShieldedAggregate_reopen(mxe_authority) ==
  IF Deser(shielded_pool, "ShieldedPoolAggregate") # "Ok"
    THEN Deser(shielded_pool, "ShieldedPoolAggregate")
  ELSE IF Deser(market, "LightMarketStub") # "Ok"
    THEN Deser(market, "LightMarketStub")
  ELSE IF ~(shielded_pool.mxe_authority = mxe_authority)
    THEN "NotMxeAuthority"
  ELSE "Ok"

\* SubmitShieldedAggregate without the constraint on pool.mxe_authority
SubmitShieldedAggregate_anysigner(mxe_authority) ==
  IF Deser(shielded_pool, "ShieldedPoolAggregate") # "Ok"
    THEN Deser(shielded_pool, "ShieldedPoolAggregate")
  ELSE IF Deser(market, "LightMarketStub") # "Ok"
    THEN Deser(market, "LightMarketStub")
  ELSE IF ~(~shielded_pool.is_finalized) THEN "ShieldedPoolFinalized"
  ELSE "Ok"

\* #[derive(Accounts)] SubmitShieldedAggregate: pool and market are
\* deserialised, then the pool's constraints are checked in their order
SubmitShieldedAggregate(mxe_authority) ==
  IF Deser(shielded_pool, "ShieldedPoolAggregate") # "Ok"
    THEN Deser(shielded_pool, "ShieldedPoolAggregate")
  ELSE IF Deser(market, "LightMarketStub") # "Ok"
    THEN Deser(market, "LightMarketStub")
  ELSE IF ~(shielded_pool.mxe_authority = mxe_authority)
    THEN "NotMxeAuthority"
  ELSE IF ~(~shielded_pool.is_finalized) THEN "ShieldedPoolFinalized"
  ELSE "Ok"

submit_shielded_aggregate_err(mxe_authority, encrypted_yes_total, encrypted_no_total, total_shielded_bets, finalize) ==
  IF SubmitShieldedAggregate(mxe_authority) # "Ok"
    THEN SubmitShieldedAggregate(mxe_authority)
  ELSE IF ~(encrypted_yes_total.len <= 80) THEN "InvalidEncryptedData"
  ELSE IF ~(encrypted_no_total.len <= 80) THEN "InvalidEncryptedData"
  ELSE "Ok"

submit_shielded_aggregate(mxe_authority, encrypted_yes_total, encrypted_no_total, total_shielded_bets, finalize) ==
  IF submit_shielded_aggregate_err(mxe_authority, encrypted_yes_total, encrypted_no_total, total_shielded_bets, finalize) = "Ok"
  THEN /\ shielded_pool' =
            [shielded_pool EXCEPT
               !.encrypted_yes_total = encrypted_yes_total,
               !.encrypted_no_total = encrypted_no_total,
               !.total_shielded_bets = total_shielded_bets,
               !.last_updated = now,
               !.is_finalized = finalize]
       /\ UNCHANGED <<now, market, bets, sbets, vault, treasury, lamports, arg, social_recovery, elder_guardian, rate_limit>>
  ELSE Reverted

(***************************************************************************)
(* Tips: tip_dj.  The DJ is any wallet; the treasury is the platform       *)
(* treasury of the wagers.                                                 *)
(***************************************************************************)
\* amount * PLATFORM_FEE_PERCENT / 100, None on overflow of the product
tip_dj_platform_fee(amount) ==
  LET product == checked_mul(amount, FromInt(PLATFORM_FEE_PERCENT))
  IN  IF product = None THEN None
      ELSE checked_div(product[1], FromInt(100))

\* amount - platform_fee
tip_dj_dj_amount(amount, platform_fee) == checked_sub(amount, platform_fee)

tip_dj_err(tipper, dj, amount) ==
  IF ~BLe(MIN_TIP, amount) THEN "TipTooSmall"
  ELSE IF tip_dj_platform_fee(amount) = None THEN "ArithmeticOverflow"
  ELSE IF tip_dj_dj_amount(amount, tip_dj_platform_fee(amount)[1]) = None
    THEN "ArithmeticOverflow"
  ELSE IF ~BLe(tip_dj_platform_fee(amount)[1], lamports[tipper])
    THEN "InsufficientLamports"
  ELSE IF ~BLe(amount, lamports[tipper]) THEN "InsufficientLamports"
  ELSE "Ok"

\* the wallets after the two transfers: fee to the treasury, rest to the DJ
tip_dj_wallets(tipper, dj, platform_fee, dj_amount) ==
  LET paid == [lamports EXCEPT
                 ![tipper] = BSub(BSub(@, platform_fee), dj_amount)]
  IN  [paid EXCEPT ![dj] = BAdd(@, dj_amount)]

tip_dj(tipper, dj, amount) ==
  IF tip_dj_err(tipper, dj, amount) = "Ok"
  THEN LET platform_fee == tip_dj_platform_fee(amount)[1]
           dj_amount == tip_dj_dj_amount(amount, platform_fee)[1]
       IN  /\ treasury' = BAdd(treasury, platform_fee)
           /\ lamports' = tip_dj_wallets(tipper, dj, platform_fee, dj_amount)
           /\ UNCHANGED <<now, market, bets, sbets, vault, arg, shielded_pool, social_recovery, elder_guardian, rate_limit>>
  ELSE Reverted

(***************************************************************************)
(* Social recovery: init_social_recovery, approve_social_recovery.  The    *)
(* model follows the SocialRecovery account of one wallet; the bump is     *)
(* left out.                                                               *)
(***************************************************************************)
\* Vec::contains
Contains(vec, key) == \E i \in 1 .. Len(vec) : vec[i] = key

\* #[derive(Accounts)] InitSocialRecovery: `init` of the account
InitSocialRecovery(user) ==
  IF social_recovery.kind # "None" THEN "AccountAlreadyInUse" ELSE "Ok"

init_social_recovery_err(user, guardians) ==
  IF InitSocialRecovery(user) # "Ok" THEN InitSocialRecovery(user)
  ELSE IF ~(Len(guardians) = 5) THEN "InvalidGuardianCount"
  ELSE "Ok"

\* the SocialRecovery record written by init_social_recovery
init_social_recovery_record(user, guardians) ==
  [kind |-> "SocialRecovery",
   user_wallet |-> user,
   guardians |-> guardians,
   threshold |-> 3,
   recovery_in_progress |-> FALSE,
   approvals |-> <<>>,
   new_wallet |-> None]

init_social_recovery(user, guardians) ==
  /\ \/ social_recovery.kind = "None"
     \/ /\ social_recovery.kind = "SocialRecovery"
        /\ social_recovery.user_wallet = user
  /\ IF init_social_recovery_err(user, guardians) = "Ok"
     THEN /\ social_recovery' = init_social_recovery_record(user, guardians)
          /\ UNCHANGED <<now, market, bets, sbets, vault, treasury, lamports, arg, shielded_pool, elder_guardian, rate_limit>>
     ELSE Reverted

\* #[derive(Accounts)] ApproveSocialRecovery
ApproveSocialRecovery(guardian) == Deser(social_recovery, "SocialRecovery")

\* approve_social_recovery_err without the check of approvals
approve_social_recovery_err_repeat(guardian, new_wallet) ==
  IF ApproveSocialRecovery(guardian) # "Ok"
    THEN ApproveSocialRecovery(guardian)
  ELSE IF ~Contains(social_recovery.guardians, guardian) THEN "NotAGuardian"
  ELSE IF social_recovery.new_wallet # None
          /\ ~(social_recovery.new_wallet[1] = new_wallet)
    THEN "Unauthorized"
  ELSE "Ok"

approve_social_recovery_err(guardian, new_wallet) ==
  IF ApproveSocialRecovery(guardian) # "Ok"
    THEN ApproveSocialRecovery(guardian)
  ELSE IF ~Contains(social_recovery.guardians, guardian) THEN "NotAGuardian"
  ELSE IF ~(~Contains(social_recovery.approvals, guardian))
    THEN "AlreadyApproved"
  ELSE IF social_recovery.new_wallet # None
          /\ ~(social_recovery.new_wallet[1] = new_wallet)
    THEN "Unauthorized"
  ELSE "Ok"

approve_social_recovery(guardian, new_wallet) ==
  IF approve_social_recovery_err(guardian, new_wallet) = "Ok"
  THEN /\ social_recovery' =
            [social_recovery EXCEPT
               !.new_wallet = IF @ = None THEN Some(new_wallet) ELSE @,
               !.approvals = Append(@, guardian),
               !.recovery_in_progress = TRUE]
       /\ UNCHANGED <<now, market, bets, sbets, vault, treasury, lamports, arg, shielded_pool, elder_guardian, rate_limit>>
  ELSE Reverted

(***************************************************************************)
(* Elder guardian: init_elder_guardian, set_guardian_key,                  *)
(* initiate_recovery, cancel_recovery, execute_recovery.  The model        *)
(* follows the ElderGuardian account of one wallet; every signer passes    *)
(* that account; the bump is left out.                                     *)
(***************************************************************************)
\* #[derive(Accounts)] InitElderGuardian: `init` of the account
InitElderGuardian(user) ==
  IF elder_guardian.kind # "None" THEN "AccountAlreadyInUse" ELSE "Ok"

init_elder_guardian_err(user) == InitElderGuardian(user)

\* the ElderGuardian record written by init_elder_guardian
init_elder_guardian_record(user) ==
  [kind |-> "ElderGuardian",
   user_wallet |-> user,
   guardian_key |-> DefaultPubkey,
   timelock |-> 7 * 24 * 60 * 60,
   recovery_initiated |-> FALSE,
   recovery_timestamp |-> 0,
   canceled |-> FALSE]

init_elder_guardian(user) ==
  /\ \/ elder_guardian.kind = "None"
     \/ /\ elder_guardian.kind = "ElderGuardian"
        /\ elder_guardian.user_wallet = user
  /\ IF init_elder_guardian_err(user) = "Ok"
     THEN /\ elder_guardian' = init_elder_guardian_record(user)
          /\ UNCHANGED <<now, market, bets, sbets, vault, treasury, lamports, arg, shielded_pool, social_recovery, rate_limit>>
     ELSE Reverted

\* #[derive(Accounts)] SetGuardianKey: the address is derived from the
\* signer's key
SetGuardianKey(user) ==
  IF Deser(elder_guardian, "ElderGuardian") # "Ok"
    THEN Deser(elder_guardian, "ElderGuardian")
  ELSE IF ~(elder_guardian.user_wallet = user) THEN "ConstraintSeeds"
  ELSE IF ~(elder_guardian.user_wallet = user) THEN "ConstraintRaw"
  ELSE "Ok"

set_guardian_key_err(user, guardian_key) == SetGuardianKey(user)

set_guardian_key(user, guardian_key) ==
  IF set_guardian_key_err(user, guardian_key) = "Ok"
  THEN /\ elder_guardian' =
            [elder_guardian EXCEPT !.guardian_key = guardian_key]
       /\ UNCHANGED <<now, market, bets, sbets, vault, treasury, lamports, arg, shielded_pool, social_recovery, rate_limit>>
  ELSE Reverted

\* #[derive(Accounts)] InitiateRecovery: the address is derived from
\* guardian.user_wallet; any signer
InitiateRecovery(initiator) ==
  IF Deser(elder_guardian, "ElderGuardian") # "Ok"
    THEN Deser(elder_guardian, "ElderGuardian")
  ELSE IF ~(~elder_guardian.recovery_initiated)
    THEN "RecoveryAlreadyInProgress"
  ELSE "Ok"

initiate_recovery_err(initiator) == InitiateRecovery(initiator)

\* the account after initiate_recovery
initiate_recovery_record(g) ==
  [g EXCEPT !.recovery_initiated = TRUE,
            !.recovery_timestamp = now,
            !.canceled = FALSE]

initiate_recovery(initiator) ==
  IF initiate_recovery_err(initiator) = "Ok"
  THEN /\ elder_guardian' = initiate_recovery_record(elder_guardian)
       /\ UNCHANGED <<now, market, bets, sbets, vault, treasury, lamports, arg, shielded_pool, social_recovery, rate_limit>>
  ELSE Reverted

\* #[derive(Accounts)] CancelRecovery: the address is derived from the
\* signer's key
CancelRecovery(user) ==
  IF Deser(elder_guardian, "ElderGuardian") # "Ok"
    THEN Deser(elder_guardian, "ElderGuardian")
  ELSE IF ~(elder_guardian.user_wallet = user) THEN "ConstraintSeeds"
  ELSE IF ~(elder_guardian.user_wallet = user) THEN "Unauthorized"
  ELSE IF ~elder_guardian.recovery_initiated THEN "RecoveryNotInProgress"
  ELSE "Ok"

cancel_recovery_err(user) == CancelRecovery(user)

\* canceled is set and the pending recovery is kept
cancel_recovery_record_pending(g) == [g EXCEPT !.canceled = TRUE]

\* the account after cancel_recovery
cancel_recovery_record(g) ==
  [g EXCEPT !.recovery_initiated = FALSE,
            !.recovery_timestamp = 0,
            !.canceled = TRUE]

cancel_recovery(user) ==
  IF cancel_recovery_err(user) = "Ok"
  THEN /\ elder_guardian' = cancel_recovery_record(elder_guardian)
       /\ UNCHANGED <<now, market, bets, sbets, vault, treasury, lamports, arg, shielded_pool, social_recovery, rate_limit>>
  ELSE Reverted

\* #[derive(Accounts)] ExecuteRecovery: any signer
ExecuteRecovery(initiator) ==
  IF Deser(elder_guardian, "ElderGuardian") # "Ok"
    THEN Deser(elder_guardian, "ElderGuardian")
  ELSE IF ~elder_guardian.recovery_initiated THEN "RecoveryNotInProgress"
  ELSE IF ~(~elder_guardian.canceled) THEN "RecoveryCanceled"
  ELSE "Ok"

\* execute_recovery_err without the comparison with the timelock
execute_recovery_err_notimelock(initiator) == ExecuteRecovery(initiator)

execute_recovery_err(initiator) ==
  IF ExecuteRecovery(initiator) # "Ok" THEN ExecuteRecovery(initiator)
  ELSE LET elapsed == now - elder_guardian.recovery_timestamp
       IN  IF ~(elapsed >= elder_guardian.timelock) THEN "TimelockNotElapsed"
           ELSE "Ok"

execute_recovery(initiator) ==
  IF execute_recovery_err(initiator) = "Ok"
  THEN /\ elder_guardian' =
            [elder_guardian EXCEPT !.recovery_initiated = FALSE,
                                   !.recovery_timestamp = 0]
       /\ UNCHANGED <<now, market, bets, sbets, vault, treasury, lamports, arg, shielded_pool, social_recovery, rate_limit>>
  ELSE Reverted

(***************************************************************************)
(* Rate limit: the methods can_bet and record_bet of RateLimitAccount.  No *)
(* instruction calls them; the user key and the bump are left out.         *)
(***************************************************************************)
MAX_BETS_PER_HOUR == 10
MIN_BET_INTERVAL == 60
WINDOW_DURATION == 3600
SUSPICIOUS_THRESHOLD == 20
BAN_DURATION == 24 * 3600

\* u8::saturating_add
saturating_add_u8(a, b) == IF a + b > 255 THEN 255 ELSE a + b

\* can_bet without the check of bets_in_window
can_bet_nolimit(acc, t) ==
  IF acc.banned_until # None /\ ~(t >= acc.banned_until[1]) THEN "UserBanned"
  ELSE IF ~((t - acc.window_start) < WINDOW_DURATION) THEN "Ok"
  ELSE IF ~(t - acc.last_bet_timestamp >= MIN_BET_INTERVAL) THEN "BetTooSoon"
  ELSE "Ok"

\* RateLimitAccount::can_bet at clock time t
can_bet(acc, t) ==
  IF acc.banned_until # None /\ ~(t >= acc.banned_until[1]) THEN "UserBanned"
  ELSE IF ~((t - acc.window_start) < WINDOW_DURATION) THEN "Ok"
  ELSE IF ~(acc.bets_in_window < MAX_BETS_PER_HOUR) THEN "RateLimitExceeded"
  ELSE IF ~(t - acc.last_bet_timestamp >= MIN_BET_INTERVAL) THEN "BetTooSoon"
  ELSE "Ok"

\* RateLimitAccount::record_bet at clock time t: the account afterwards
record_bet(acc, t) ==
  LET window == IF (t - acc.window_start) >= WINDOW_DURATION
                  THEN [acc EXCEPT !.window_start = t, !.bets_in_window = 0]
                ELSE acc
      counted == [window EXCEPT
                    !.last_bet_timestamp = t,
                    !.bets_in_window = saturating_add_u8(@, 1)]
  IN  IF counted.bets_in_window > SUSPICIOUS_THRESHOLD
        THEN [counted EXCEPT !.banned_until = Some(t + BAN_DURATION)]
      ELSE counted

\* a caller that records a bet after can_bet returned Ok at the same clock
\* time; arg is the list of the times at which record_bet was called
can_bet_then_record_bet ==
  IF can_bet(rate_limit, now) = "Ok"
  THEN /\ rate_limit' = record_bet(rate_limit, now)
       /\ arg' = Append(arg, now)
       /\ UNCHANGED <<now, market, bets, sbets, vault, treasury, lamports, shielded_pool, social_recovery, elder_guardian>>
  ELSE Reverted

(***************************************************************************)
(* The program: any user may send any instruction at any time              *)
(***************************************************************************)
\* expiry dates offered to the create instructions
Expiries == 0 .. MaxNow
FarDate == ONE_YEAR + MaxNow

\* price accounts offered to resolve_light_market_oracle
PythAccount(len, magic, expo, pub_slot, status, price) ==
  [key |-> "price_feed", len |-> len, magic |-> magic, expo |-> expo,
   pub_slot |-> pub_slot, status |-> status, price |-> price]
Sentinel == [key |-> SystemProgram]
PriceFeeds ==
  {Sentinel}
  \cup {PythAccount(240, PYTH_MAGIC, -8, slot, 1, p) : p \in Prices}
  \cup {PythAccount(239, PYTH_MAGIC, -8, slot, 1, 100),
        PythAccount(240, One, -8, slot, 1, 100),
        PythAccount(240, PYTH_MAGIC, 1, slot, 1, 100),
        PythAccount(240, PYTH_MAGIC, -8, slot - 26, 1, 100),
        PythAccount(240, PYTH_MAGIC, -8, slot, 2, 100)}

Next ==
  \/ Tick
  \/ \E u \in Creators, q \in QuestionLens, e \in Expiries :
       create_market(u, q, e)
  \/ \E u \in Users, a \in BetAmounts, o \in BOOLEAN : place_bet(u, a, o)
  \/ \E u \in ShieldedBettors, el \in EncLens, zl \in ZkLens, o \in BOOLEAN :
       shielded_bet(u, el, zl, o)
  \/ \E u \in Users, o \in BOOLEAN : resolve_market(u, o)
  \/ \E u \in Users : claim_winnings(u)
  \/ \E u \in Creators, c \in {6, 7}, r \in {8, 9}, e \in Expiries \cup {FarDate},
        oa \in OracleAuthorities, th \in Thresholds, ab \in BOOLEAN :
       create_light_market(u, c, r, e, oa, th, ab)
  \/ \E u \in Users, a \in BetAmounts, o \in BOOLEAN : place_light_bet(u, a, o)
  \/ \E u \in ShieldedBettors, el \in EncLens, zl \in ZkLens, o \in BOOLEAN :
       place_shielded_light_bet(u, el, zl, o)
  \/ \E u \in Users, o \in BOOLEAN : resolve_light_market(u, o)
  \/ \E u \in Users, f \in PriceFeeds, p \in Prices, o \in BOOLEAN :
       resolve_light_market_oracle(u, f, p, o)
  \/ \E u \in Users : claim_light_winnings(u)
  \/ \E u \in Creators, q \in QuestionLens, e \in Expiries \cup {FarDate} :
       create_compressed_market(u, q, e)
  \/ \E u \in Users, a \in BetAmounts, o \in BOOLEAN :
       place_compressed_bet(u, a, o)

Spec == Init /\ [][Next]_vars

(***************************************************************************)
(* SpecWager: the three wager instructions applied to one amount, on a     *)
(* freshly created market, for a sweep of amounts around the bounds and    *)
(* around the rounding of the fee                                          *)
(***************************************************************************)
WagerAmounts ==
  {BSub(MIN_BET, One), MIN_BET, BAdd(MIN_BET, One), BAdd(MIN_BET, FromInt(199)),
   BAdd(MIN_BET, FromInt(200)), BAdd(MIN_BET, FromInt(399)),
   Big(<<123, 4567, 8901>>), TEN_SOL, THIRTY_SOL,
   BSub(MAX_BET, One), MAX_BET, BAdd(MAX_BET, One)}

InitWager == InitAccounts /\ arg \in WagerAmounts

NextWager ==
  \/ create_market("alice", 280, 1)
  \/ create_light_market("alice", 6, 8, 1, DefaultPubkey, 100, TRUE)
  \/ create_compressed_market("alice", 10, 1)
  \/ \E u \in Users, o \in BOOLEAN : place_bet(u, arg, o)
  \/ \E u \in Users, o \in BOOLEAN : place_light_bet(u, arg, o)
  \/ \E u \in Users, o \in BOOLEAN : place_compressed_bet(u, arg, o)

SpecWager == InitWager /\ [][NextWager]_vars

(***************************************************************************)
(* SpecPayout: the two payout computations applied to the same Bet amount  *)
(* and pools, for pools up to the largest u64                              *)
(***************************************************************************)
\* the payout of claim_winnings for a winning Bet: None is ArithmeticOverflow
additive_form(amount, yes_pool, no_pool, outcome) ==
  IF outcome THEN claim_winnings_payout(amount, yes_pool, no_pool)
  ELSE claim_winnings_payout(amount, no_pool, yes_pool)

\* the payout of claim_light_winnings for a winning Bet
ratio_form(amount, yes_pool, no_pool, outcome) ==
  LET total_pool == checked_add(yes_pool, no_pool)
  IN  IF total_pool = None THEN None
      ELSE claim_light_winnings_payout(amount, total_pool[1],
             IF outcome THEN yes_pool ELSE no_pool)

PayoutValues ==
  {One, Big(<<995, 0>>), Big(<<99, 5000, 0>>), Big(<<298, 5000, 0>>),
   Big(<<42, 9496, 7296>>), Big(<<922, 3372, 368, 5477, 5807>>), U64_MAX}

InitPayout ==
  /\ InitAccounts
  /\ \E a \in PayoutValues, y \in PayoutValues \cup {Zero},
        n \in PayoutValues \cup {Zero}, o \in BOOLEAN :
       /\ BLt(Zero, IF o THEN y ELSE n)
       /\ BLe(a, IF o THEN y ELSE n)
       /\ arg = [amount |-> a, yes_pool |-> y, no_pool |-> n, outcome |-> o,
                 done_additive |-> FALSE, additive |-> None,
                 done_ratio |-> FALSE, ratio |-> None]

apply_additive ==
  /\ ~arg.done_additive
  /\ arg' = [arg EXCEPT !.done_additive = TRUE,
                        !.additive = additive_form(arg.amount, arg.yes_pool,
                                                   arg.no_pool, arg.outcome)]
  /\ UNCHANGED <<now, market, bets, sbets, vault, treasury, lamports, shielded_pool, social_recovery, elder_guardian, rate_limit>>

apply_ratio ==
  /\ ~arg.done_ratio
  /\ arg' = [arg EXCEPT !.done_ratio = TRUE,
                        !.ratio = ratio_form(arg.amount, arg.yes_pool,
                                             arg.no_pool, arg.outcome)]
  /\ UNCHANGED <<now, market, bets, sbets, vault, treasury, lamports, shielded_pool, social_recovery, elder_guardian, rate_limit>>

NextPayout == apply_additive \/ apply_ratio

SpecPayout == InitPayout /\ [][NextPayout]_vars

(***************************************************************************)
(* SpecOracle: resolve_light_market_oracle applied once, by the oracle     *)
(* authority, to one price account, attested price and outcome, on a       *)
(* freshly created light market, for a sweep of the fields that            *)
(* read_pyth_price reads                                                   *)
(***************************************************************************)
FeedLens == {239, 240}
FeedMagics == {PYTH_MAGIC, One}
FeedExpos == {-13, -12, 0, 1}
FeedPubSlots == {0, slot - 26, slot - 25, slot, slot + 1}
FeedStatuses == {0, 1, 2}
OracleFeeds ==
  {Sentinel}
  \cup {PythAccount(l, m, e, ps, st, p) :
          l \in FeedLens, m \in FeedMagics, e \in FeedExpos,
          ps \in FeedPubSlots, st \in FeedStatuses, p \in Prices}

InitOracle ==
  /\ InitAccounts
  /\ arg \in [price_feed : OracleFeeds, attested_price : Prices,
              outcome : BOOLEAN]

NextOracle ==
  \/ \E ab \in BOOLEAN :
       create_light_market("alice", 6, 8, 1, "bob", 100, ab)
  \/ resolve_light_market_oracle("bob", arg.price_feed, arg.attested_price,
                                 arg.outcome)

SpecOracle == InitOracle /\ [][NextOracle]_vars

(***************************************************************************)
(* SpecShielded: the shielded pool aggregate of a light market: any user   *)
(* may send init_shielded_pool and submit_shielded_aggregate at any time   *)
(***************************************************************************)
\* authorities offered to init_shielded_pool
MxeAuthorities == {"alice", "bob", DefaultPubkey}
\* ciphertexts and counts offered to submit_shielded_aggregate
Ciphertexts == {Ciphertext(80, 1), Ciphertext(80, 2), Ciphertext(81, 1)}
ShieldedCounts == {0, 1}

NextShielded ==
  \/ Tick
  \/ create_light_market("alice", 6, 8, 1, DefaultPubkey, 100, TRUE)
  \/ \E u \in Users, a \in MxeAuthorities : init_shielded_pool(u, a)
  \/ \E u \in Users, y \in Ciphertexts, n \in Ciphertexts,
        t \in ShieldedCounts, f \in BOOLEAN :
       submit_shielded_aggregate(u, y, n, t, f)

SpecShielded == Init /\ [][NextShielded]_vars

(***************************************************************************)
(* SpecShieldedBet: the two shielded wager instructions applied to one     *)
(* ciphertext and one proof, on a freshly created market, for a sweep of   *)
(* their byte lengths                                                      *)
(***************************************************************************)
ShieldedEncLens == {31, 32, 64, 79, 80, 81, 128, 129}
ShieldedZkLens == {31, 32, 63, 64, 65, 128, 129}

InitShieldedBet ==
  /\ InitAccounts
  /\ arg \in [enc_len : ShieldedEncLens, zk_len : ShieldedZkLens]

NextShieldedBet ==
  \/ create_market("alice", 10, 1)
  \/ create_light_market("alice", 6, 8, 1, DefaultPubkey, 100, TRUE)
  \/ \E u \in Users, o \in BOOLEAN :
       shielded_bet(u, arg.enc_len, arg.zk_len, o)
  \/ \E u \in Users, o \in BOOLEAN :
       place_shielded_light_bet(u, arg.enc_len, arg.zk_len, o)

SpecShieldedBet == InitShieldedBet /\ [][NextShieldedBet]_vars

(***************************************************************************)
(* SpecTip: tip_dj applied to one amount, between any two wallets, for a   *)
(* sweep of amounts around MIN_TIP and around the rounding of the fee      *)
(***************************************************************************)
MaxTips == 3                             \* tips followed per amount
HUNDRED_MILLION == Big(<<1, 0, 0>>)      \* 100_000_000 lamports = 0.1 SOL
TipAmounts ==
  {Big(<<100>>), BSub(MIN_TIP, One), MIN_TIP, BAdd(MIN_TIP, One),
   BAdd(MIN_TIP, FromInt(7)), HUNDRED_MILLION, Big(<<123, 4567, 8901>>),
   Big(<<250, 0, 0>>), U64_MAX}

InitTip == InitAccounts /\ arg \in TipAmounts

\* fewer than MaxTips fees of this amount have reached the treasury
TipsLeft ==
  IF tip_dj_platform_fee(arg) = None THEN TRUE
  ELSE BLt(treasury, BMul(tip_dj_platform_fee(arg)[1], FromInt(MaxTips)))

NextTip ==
  \E tipper \in Users, dj \in Users : TipsLeft /\ tip_dj(tipper, dj, arg)

SpecTip == InitTip /\ [][NextTip]_vars

(***************************************************************************)
(* SpecRecovery: the social recovery of alice's wallet: any identity may   *)
(* send approve_social_recovery for any new wallet at any time             *)
(***************************************************************************)
\* guardian lists offered to init_social_recovery: five distinct guardians,
\* five with one named twice, four, six
GuardianLists ==
  {<<"g1", "g2", "g3", "g4", "g5">>, <<"g1", "g1", "g2", "g3", "g4">>,
   <<"g1", "g2", "g3", "g4">>, <<"g1", "g2", "g3", "g4", "g5", "g6">>}
\* identities that sign approve_social_recovery
RecoverySigners == {"g1", "g2", "g3", "g4", "g5", "g6", "alice"}
NewWallets == {"w1", "w2"}

NextRecovery ==
  \/ \E g \in GuardianLists : init_social_recovery("alice", g)
  \/ \E u \in RecoverySigners, w \in NewWallets : approve_social_recovery(u, w)

SpecRecovery == Init /\ [][NextRecovery]_vars

(***************************************************************************)
(* SpecElder: the elder guardian of alice's wallet: any user may send any  *)
(* of its instructions at any time, at clock values around the end of the  *)
(* timelock of a recovery initiated at 0, at 1 or at 604800                *)
(***************************************************************************)
SEVEN_DAYS == 604800
ElderTimes ==
  {1, SEVEN_DAYS - 1, SEVEN_DAYS, SEVEN_DAYS + 1, SEVEN_DAYS + 2,
   2 * SEVEN_DAYS - 1, 2 * SEVEN_DAYS}
GuardianKeys == {"k1", "k2"}

NextElder ==
  \/ \E t \in ElderTimes : Advance(t)
  \/ init_elder_guardian("alice")
  \/ \E u \in Users, k \in GuardianKeys : set_guardian_key(u, k)
  \/ \E u \in Users : initiate_recovery(u)
  \/ \E u \in Users : cancel_recovery(u)
  \/ \E u \in Users : execute_recovery(u)

SpecElder == Init /\ [][NextElder]_vars

(***************************************************************************)
(* SpecRate: bets recorded through can_bet and record_bet on a             *)
(* zero-initialised RateLimitAccount, at clock values in and right after   *)
(* the hour that starts at FirstBet                                        *)
(***************************************************************************)
FirstBet == 10000
RateTimes ==
  {FirstBet, FirstBet + 60}
  \cup {FirstBet + 3060 + 60 * k : k \in 0 .. 8}
  \cup {FirstBet + 3590, FirstBet + 3600, FirstBet + 3660}

\* the account as `init` leaves it: all fields zero
RateLimitZeroed ==
  [kind |-> "RateLimitAccount",
   last_bet_timestamp |-> 0,
   bets_in_window |-> 0,
   window_start |-> 0,
   banned_until |-> None]

InitRate ==
  /\ now = 0
  /\ market = NoAccount
  /\ bets = [u \in Users |-> NoAccount]
  /\ sbets = [u \in Users |-> NoAccount]
  /\ vault = Zero
  /\ treasury = Zero
  /\ lamports = InitLamports
  /\ shielded_pool = NoAccount
  /\ social_recovery = NoAccount
  /\ elder_guardian = NoAccount
  /\ rate_limit = RateLimitZeroed
  /\ arg = <<>>

NextRate ==
  \/ \E t \in RateTimes : Advance(t)
  \/ can_bet_then_record_bet

SpecRate == InitRate /\ [][NextRate]_vars

(***************************************************************************)
(* Properties                                                              *)
(***************************************************************************)
IsPlain == market.kind = "Market"
IsLight == market.kind = "LightMarketStub"
IsCompressed == market.kind = "CompressedMarket"
Resolved ==
  \/ IsPlain /\ market.status = "Resolved"
  \/ IsLight /\ market.resolved
MarketActive ==
  \/ IsPlain /\ market.status = "Active"
  \/ (IsLight \/ IsCompressed) /\ market.is_active
Expiry == IF IsPlain THEN market.expires_at ELSE market.resolve_date
HasBet(u) == bets[u].kind # "None"
\* the Bet of u is on the side the market was resolved to
OnWinningSide(u) ==
  /\ HasBet(u)
  /\ Resolved
  /\ IF IsPlain THEN bets[u].outcome = market.outcome[1]
     ELSE bets[u].outcome = (market.outcome = 1)
\* floor(amount * 50 / 10000), computed without the program's operations
FloorFee(amount) == BDiv(BMul(amount, <<50>>), <<0, 1>>)
InRange(amount) == BLe(MIN_BET, amount) /\ BLe(amount, MAX_BET)

\* a claim on a claimed Bet is rejected
C1_ClaimedBetRejected ==
  \A u \in Users :
    (HasBet(u) /\ bets[u].claimed) =>
      /\ IsPlain => claim_winnings_err(u) = "AlreadyClaimed"
      /\ IsLight => claim_light_winnings_err(u) = "AlreadyClaimed"
\* a claimed Bet is frozen, and only a first claim debits the vault
C1_Step ==
  /\ \A u \in Users : (HasBet(u) /\ bets[u].claimed) => bets'[u] = bets[u]
  /\ BLt(vault', vault) =>
       \E u \in Users :
         /\ HasBet(u) /\ ~bets[u].claimed /\ bets'[u].claimed
         /\ \A w \in Users \ {u} : bets'[w] = bets[w]
\* C1: a Bet is paid at most once.  In the plain and in the light variant, a
\* claim on a Bet whose claimed flag is set fails with AlreadyClaimed; a
\* claimed Bet is never changed again, whatever instruction runs; and lamports
\* leave the vault only in a step that turns exactly one unclaimed Bet into a
\* claimed one.
C1_ClaimAtMostOnce == [] C1_ClaimedBetRejected /\ [][C1_Step]_vars
\* a Bet was paid and the vault still holds lamports a second payout could take
C1_Witness == \E u \in Users : HasBet(u) /\ bets[u].claimed /\ BLt(Zero, vault)

\* every resolve instruction fails on a resolved market
C2_NoSecondResolution ==
  Resolved =>
    \A u \in Users, o \in BOOLEAN :
      /\ IsPlain => resolve_market_err(u, o) # "Ok"
      /\ IsLight =>
           /\ resolve_light_market_err(u, o) # "Ok"
           /\ \A f \in PriceFeeds, p \in Prices :
                resolve_light_market_oracle_err(u, f, p, o) # "Ok"
\* the record of a resolved market is frozen
C2_Step == Resolved => market' = market
\* C2: a resolved market stays as it is.  Once the market is resolved, every
\* resolve_market, resolve_light_market and resolve_light_market_oracle call
\* fails, for every signer, outcome, price account and attested price, and no
\* instruction changes the Market record.
C2_ResolvedIsFinal == [] C2_NoSecondResolution /\ [][C2_Step]_vars
\* a resolved light market that names an oracle authority, at a time when
\* its resolve date has passed: all three resolve instructions are in reach
C2_Witness ==
  /\ Resolved
  /\ IsLight
  /\ market.oracle_authority # DefaultPubkey
  /\ now >= market.resolve_date

\* C3: manual resolution happens only at or after the expiry.  A plain market
\* that is Resolved was resolved at a time >= expires_at, and on a light
\* market resolve_light_market fails while now < resolve_date.
C3_ManualResolveOnlyAfterExpiry ==
  /\ (IsPlain /\ market.status = "Resolved") =>
       market.resolved_at[1] >= market.expires_at
  /\ (IsLight /\ now < market.resolve_date) =>
       \A u \in Users, o \in BOOLEAN : resolve_light_market_err(u, o) # "Ok"

\* C4: the only winner takes the whole pool.  When the market is resolved and
\* exactly one Bet is on the winning side (as for 10 SOL on YES against 30 SOL
\* on NO, resolved YES), the claim of that Bet succeeds and pays
\* yes_pool + no_pool, in the plain and in the light variant.
C4_SoleWinnerTakesAll ==
  \A u \in Users :
    ( /\ OnWinningSide(u)
      /\ ~bets[u].claimed
      /\ \A w \in Users \ {u} : ~OnWinningSide(w) ) =>
      IF IsPlain
      THEN /\ claim_winnings_err(u) = "Ok"
           /\ claim_winnings_payout(bets[u].amount,
                claim_winnings_pools(market)[1],
                claim_winnings_pools(market)[2])
                = Some(BAdd(market.yes_pool, market.no_pool))
      ELSE /\ claim_light_winnings_err(u) = "Ok"
           /\ claim_light_winnings_payout(bets[u].amount,
                BAdd(market.yes_pool, market.no_pool),
                light_winning_pool(market))
                = Some(BAdd(market.yes_pool, market.no_pool))

\* C5: the additive form of claim_winnings and the ratio form of
\* claim_light_winnings give the same payout and neither overflows, for every
\* Bet amount and pools with 0 < amount <= winning pool.
C5_FormsAgree ==
  (arg.done_additive /\ arg.done_ratio) =>
    /\ arg.additive # None
    /\ arg.ratio # None
    /\ arg.additive = arg.ratio

\* C6: the narrowing `as u64` in claim_light_winnings loses nothing.  For every
\* light Bet on the winning side of a resolved market, the winning pool is
\* positive and at least the Bet amount, so the quotient
\* floor(amount * (yes_pool + no_pool) / winning_pool) is at most
\* yes_pool + no_pool <= 2^64 - 1, and the payout the code computes is that
\* quotient.
C6_QuotientFitsU64 ==
  \A u \in Users :
    (IsLight /\ OnWinningSide(u)) =>
      LET total == BAdd(market.yes_pool, market.no_pool)
          winning == light_winning_pool(market)
          quotient == BDiv(BMul(bets[u].amount, total), winning)
      IN  /\ BLt(Zero, winning)
          /\ BLe(bets[u].amount, winning)
          /\ BLe(total, U64_MAX)
          /\ BLe(quotient, total)
          /\ claim_light_winnings_payout(bets[u].amount, total, winning)
               = Some(quotient)
\* a light Bet was paid while the other side had staked as well
C6_Witness ==
  /\ IsLight
  /\ BLt(Zero, market.yes_pool) /\ BLt(Zero, market.no_pool)
  /\ \E u \in Users : OnWinningSide(u) /\ bets[u].claimed

\* the transfers and the record of a step that creates a Bet
C7_Step ==
  \A u \in Users :
    (~HasBet(u) /\ bets'[u].kind # "None") =>
      LET fee == BSub(treasury', treasury)
          net == BSub(vault', vault)
      IN  /\ InRange(arg)
          /\ BLe(treasury, treasury') /\ BLe(vault, vault')
          /\ BLe(BMul(fee, <<0, 1>>), BMul(arg, <<50>>))
          /\ BLt(BMul(arg, <<50>>), BMul(BAdd(fee, One), <<0, 1>>))
          /\ BAdd(fee, net) = arg
          /\ bets'[u].amount = net
          /\ BAdd(lamports'[u], arg) = lamports[u]
          /\ \A w \in Users \ {u} : lamports'[w] = lamports[w]
\* no wager instruction overflows on an amount within the bounds
C7_NoOverflow ==
  InRange(arg) =>
    \A u \in Users, o \in BOOLEAN :
      /\ place_bet_err(u, arg, o) # "ArithmeticOverflow"
      /\ place_light_bet_err(u, arg, o) # "ArithmeticOverflow"
      /\ place_compressed_bet_err(u, arg, o) # "ArithmeticOverflow"
\* C7: the fee split of an admitted wager.  Under SpecWager every wager has the
\* amount arg.  Whenever place_bet, place_light_bet or place_compressed_bet
\* creates a Bet, arg is in [MIN_BET, MAX_BET], the treasury gains
\* fee = floor(arg * 50 / 10000), the vault gains net with fee + net = arg, the
\* Bet records net, the bettor loses exactly arg and nobody else's wallet
\* changes; and for an amount in the range none of the three instructions
\* fails with ArithmeticOverflow.
C7_FeeSplit == [] C7_NoOverflow /\ [][C7_Step]_vars
\* a wager whose fee is rounded down was admitted on a plain market
C7_Witness ==
  /\ arg = BAdd(MIN_BET, FromInt(199))
  /\ IsPlain
  /\ \E u \in Users : HasBet(u)

\* the four amounts at the bounds
C8_Bounds ==
  \A u \in Users, o \in BOOLEAN :
    (IsPlain /\ market.status = "Active" /\ now < market.expires_at
       /\ ~HasBet(u)) =>
      /\ BLe(BSub(MIN_BET, One), lamports[u]) =>
           place_bet_err(u, BSub(MIN_BET, One), o) = "BetTooSmall"
      /\ BLe(MIN_BET, lamports[u]) => place_bet_err(u, MIN_BET, o) = "Ok"
      /\ BLe(MAX_BET, lamports[u]) => place_bet_err(u, MAX_BET, o) = "Ok"
      /\ BLe(BAdd(MAX_BET, One), lamports[u]) =>
           place_bet_err(u, BAdd(MAX_BET, One), o) = "BetTooLarge"
\* an amount outside the bounds changes no account
C8_Step ==
  (IsPlain /\ ~InRange(arg)) =>
    UNCHANGED <<market, bets, sbets, vault, treasury, lamports>>
\* C8: the bounds of place_bet.  On an Active, unexpired plain market, for a
\* bettor without a Bet who holds at least the amount: MIN_BET - 1 fails with
\* BetTooSmall, MIN_BET and MAX_BET succeed, MAX_BET + 1 fails with
\* BetTooLarge; and a place_bet with an amount outside the bounds changes no
\* account.
C8_BetBounds == [] C8_Bounds /\ [][C8_Step]_vars
\* a wager of exactly MAX_BET was admitted
C8_Witness ==
  /\ arg = MAX_BET
  /\ IsPlain
  /\ bets["alice"].kind = "Bet"
  /\ bets["alice"].amount = BSub(MAX_BET, FloorFee(MAX_BET))

\* the errors of the wager instructions on a closed market
C9_Rejected ==
  \A u \in Users, o \in BOOLEAN :
    /\ (IsPlain /\ ~HasBet(u)) =>
         \A a \in BetAmounts :
           /\ Resolved => place_bet_err(u, a, o) = "MarketNotActive"
           /\ (MarketActive /\ now >= Expiry /\ InRange(a)) =>
                place_bet_err(u, a, o) = "MarketExpired"
    /\ (IsPlain /\ sbets[u].kind = "None") =>
         /\ \A el \in EncLens, zl \in ZkLens :
              Resolved => shielded_bet_err(u, el, zl, o) = "MarketNotActive"
         /\ (MarketActive /\ now >= Expiry) =>
              shielded_bet_err(u, 80, 64, o) = "MarketExpired"
    /\ (IsLight /\ ~HasBet(u)) =>
         \A a \in BetAmounts :
           /\ Resolved => place_light_bet_err(u, a, o) = "MarketNotActive"
           /\ (MarketActive /\ now >= Expiry /\ InRange(a)) =>
                place_light_bet_err(u, a, o) = "MarketExpired"
    /\ (IsLight /\ sbets[u].kind = "None") =>
         /\ \A el \in EncLens, zl \in ZkLens :
              Resolved =>
                place_shielded_light_bet_err(u, el, zl, o) = "MarketNotActive"
         /\ (MarketActive /\ now >= Expiry) =>
              place_shielded_light_bet_err(u, 80, 64, o) = "MarketExpired"
\* a Bet or shielded Bet appears only on an open market
C9_Step ==
  \A u \in Users :
    ( \/ ~HasBet(u) /\ bets'[u].kind # "None"
      \/ sbets[u].kind = "None" /\ sbets'[u].kind # "None" ) =>
      MarketActive /\ ~Resolved /\ now < Expiry
C10_Step ==
  \A u \in Users :
    ((IsPlain \/ IsLight) /\ ~HasBet(u) /\ bets'[u].kind # "None") =>
      \E a \in BetAmounts :
        LET net == BSub(a, FloorFee(a))
            o == bets'[u].outcome
        IN  /\ InRange(a)
            /\ bets'[u].amount = net
            /\ bets'[u].claimed = FALSE
            /\ market' =
                 [market EXCEPT
                    !.yes_pool = IF o THEN BAdd(@, net) ELSE @,
                    !.no_pool = IF o THEN @ ELSE BAdd(@, net),
                    !.total_bets = @ + 1]
            /\ vault' = BAdd(vault, net)
            /\ \A w \in Users \ {u} : bets'[w] = bets[w]
\* C10: the effect of an admitted wager.  A step in which place_bet
\* (place_light_bet) creates the Bet of u is the step of a wager
\* (amount, outcome): the pool of `outcome` grows by
\* net = amount - floor(amount * 50 / 10000), the other pool is unchanged,
\* total_bets grows by 1, the Bet holds amount = net, outcome and
\* claimed = false, no other Bet changes, and no other field of the market
\* (creator, expiry, status, outcome, ...) changes.
C10_WagerEffect == [][C10_Step]_vars
\* both sides of a plain market hold a wager that is not yet claimed
C10_Witness ==
  /\ IsPlain
  /\ \A u \in Users : HasBet(u) /\ ~bets[u].claimed
  /\ bets["alice"].outcome # bets["bob"].outcome

\* the two pools of the market, whatever the layout names them
YesPool == IF IsCompressed THEN market.yes_bets ELSE market.yes_pool
NoPool == IF IsCompressed THEN market.no_bets ELSE market.no_pool
\* floor(amount * (yes_pool + no_pool) / winning_pool) for a Bet of u on the
\* winning side, computed without the program's operations
MathPayout(u) ==
  BDiv(BMul(bets[u].amount, BAdd(market.yes_pool, market.no_pool)),
       IF bets[u].outcome THEN market.yes_pool ELSE market.no_pool)
\* the result of the claim instruction of the market's layout
ClaimErr(u) ==
  IF IsPlain THEN claim_winnings_err(u) ELSE claim_light_winnings_err(u)

\* a step never lowers a pool, and changes neither pool nor total_bets in or
\* after the step that resolves the market
C11_Step ==
  market.kind # "None" =>
    /\ market'.kind = market.kind
    /\ BLe(YesPool, YesPool') /\ BLe(NoPool, NoPool')
    /\ (IsPlain \/ IsLight) /\ (Resolved \/ Resolved') =>
         /\ market'.yes_pool = market.yes_pool
         /\ market'.no_pool = market.no_pool
         /\ market'.total_bets = market.total_bets
    /\ (\E u \in Users : HasBet(u) /\ bets'[u].claimed # bets[u].claimed) =>
         market' = market
\* C11: yes_pool and no_pool never decrease under any instruction (plain,
\* light and compressed layout), and neither the step that resolves the market
\* nor any later step (claims included) changes yes_pool, no_pool or
\* total_bets.
C11_PoolsMonotone == [][C11_Step]_vars
\* a resolved market with two Bets of which one was paid
C11_Witness ==
  /\ Resolved
  /\ market.total_bets = 2
  /\ \E u \in Users : HasBet(u) /\ bets[u].claimed

\* a bettor who has a Bet cannot place another one
C12_SecondRejected ==
  \A u \in Users, o \in BOOLEAN, a \in BetAmounts :
    HasBet(u) =>
      /\ IsPlain => place_bet_err(u, a, o) # "Ok"
      /\ IsLight => place_light_bet_err(u, a, o) # "Ok"
\* a Bet keeps its stake and side, and a step that creates neither a Bet nor
\* a shielded Bet leaves pools, total_bets and treasury as they are and does
\* not credit the vault
C12_Step ==
  /\ \A u \in Users :
       HasBet(u) =>
         /\ bets'[u].kind = bets[u].kind
         /\ bets'[u].amount = bets[u].amount
         /\ bets'[u].outcome = bets[u].outcome
  /\ (\A u \in Users :
        (HasBet(u) <=> bets'[u].kind # "None")
          /\ (sbets'[u].kind = sbets[u].kind)) =>
       /\ market.kind # "None" => YesPool' = YesPool /\ NoPool' = NoPool
       /\ (IsPlain \/ IsLight) => market'.total_bets = market.total_bets
       /\ treasury' = treasury
       /\ BLe(vault', vault)
\* C12: per (market, bettor) there is at most one Bet.  While the Bet of a
\* bettor exists, place_bet and place_light_bet by that bettor fail for every
\* amount and side; the existing Bet keeps its amount and outcome in every
\* step; and a step that creates no Bet (and no shielded Bet) leaves both
\* pools, total_bets and the treasury unchanged and does not credit the vault.
C12_OneBetPerBettor == [] C12_SecondRejected /\ [][C12_Step]_vars
\* a bettor with a Bet on an open light market who could pay a second wager
C12_Witness ==
  /\ IsLight /\ market.is_active /\ now < market.resolve_date
  /\ \E u \in Users : HasBet(u) /\ BLe(TEN_SOL, lamports[u])

\* the errors of a claim on an unresolved market and on the losing side
C13_Rejected ==
  \A u \in Users :
    ((IsPlain \/ IsLight) /\ HasBet(u)) =>
      /\ ~Resolved => ClaimErr(u) = "MarketNotResolved"
      /\ (Resolved /\ ~OnWinningSide(u)) => ClaimErr(u) = "BetLost"
\* such a Bet stays as it is, and the vault pays nothing before resolution
C13_Step ==
  /\ \A u \in Users :
       (HasBet(u) /\ ~OnWinningSide(u)) =>
         bets'[u] = bets[u] /\ BLe(lamports'[u], lamports[u])
  /\ ~Resolved => BLe(vault, vault')
\* C13: for a bettor who has a Bet, claim_winnings / claim_light_winnings fail
\* with MarketNotResolved while the market is unresolved and with BetLost when
\* the market is resolved to the other side (also when nobody bet on the
\* winning side); in every step the Bet of such a bettor stays as it is
\* (claimed stays false) and the bettor receives nothing, and the vault pays
\* nothing while the market is unresolved.
C13_ClaimRejected == [] C13_Rejected /\ [][C13_Step]_vars
\* a resolved market whose winning side nobody bet on
C13_Witness ==
  /\ IsPlain \/ IsLight
  /\ Resolved
  /\ \E u \in Users : HasBet(u)
  /\ \A u \in Users : ~OnWinningSide(u)

\* a Bet changes only by a claim, and the claim moves exactly the payout
C14_Step ==
  \A u \in Users :
    (HasBet(u) /\ bets'[u] # bets[u]) =>
      /\ OnWinningSide(u)
      /\ ~bets[u].claimed
      /\ ClaimErr(u) = "Ok"
      /\ bets'[u] = [bets[u] EXCEPT !.claimed = TRUE]
      /\ BLe(MathPayout(u), vault)
      /\ vault' = BSub(vault, MathPayout(u))
      /\ lamports'[u] = BAdd(lamports[u], MathPayout(u))
      /\ \A w \in Users \ {u} : lamports'[w] = lamports[w] /\ bets'[w] = bets[w]
      /\ UNCHANGED <<market, treasury, sbets>>
\* a claim that does not succeed has no effect: the vault is debited only
\* together with a Bet becoming claimed
C14_NoPartialEffect ==
  (BLt(vault', vault) \/ \E u \in Users : BLt(lamports[u], lamports'[u])) =>
    \E u \in Users : HasBet(u) /\ ~bets[u].claimed /\ bets'[u].claimed
\* C14: a claim is atomic with its transfer.  A Bet is changed after its
\* creation only by a step of a successful claim, which sets claimed = true and
\* nothing else in the Bet, debits the vault and credits the claimant by
\* exactly floor(amount * (yes_pool + no_pool) / winning_pool), and changes
\* neither the Market nor the treasury nor any other account; no step debits
\* the vault or credits a user without a Bet becoming claimed (a claim whose
\* transfer fails leaves claimed = false and every balance as it was).
C14_ClaimAtomic == [][C14_Step /\ C14_NoPartialEffect]_vars
\* a claimant was paid more than the amount of the Bet
C14_Witness ==
  \E u \in Users :
    /\ HasBet(u) /\ bets[u].claimed
    /\ BLt(InitLamports[u], lamports[u])

\* on an unresolved market every signer other than the authorised one is
\* turned away with Unauthorized
C15_Rejected ==
  \A u \in Users, o \in BOOLEAN :
    ~Resolved =>
      /\ (IsPlain /\ u # market.creator) =>
           resolve_market_err(u, o) = "Unauthorized"
      /\ (IsLight /\ u # market.creator) =>
           resolve_light_market_err(u, o) = "Unauthorized"
      /\ (IsLight /\ u # market.oracle_authority) =>
           \A f \in PriceFeeds, p \in Prices :
             resolve_light_market_oracle_err(u, f, p, o) = "Unauthorized"
\* a step that resolves the market is a call the creator or the oracle
\* authority could make, with the outcome the market then holds
C15_Step ==
  (~Resolved /\ Resolved') =>
    \E o \in BOOLEAN :
      IF IsPlain
      THEN /\ market'.outcome = Some(o)
           /\ market.creator \in Users
           /\ resolve_market_err(market.creator, o) = "Ok"
      ELSE /\ market'.outcome = IF o THEN 1 ELSE 2
           /\ \/ /\ market.creator \in Users
                 /\ resolve_light_market_err(market.creator, o) = "Ok"
              \/ /\ market.oracle_authority \in Users
                 /\ \E f \in PriceFeeds, p \in Prices :
                      resolve_light_market_oracle_err(
                        market.oracle_authority, f, p, o) = "Ok"
\* C15: only an authorised identity resolves a market.  On an unresolved
\* market, resolve_market and resolve_light_market fail with Unauthorized for
\* every signer other than market.creator, and resolve_light_market_oracle
\* fails with Unauthorized for every signer other than
\* market.oracle_authority, whatever the outcome, price account and attested
\* price; and every step that resolves the market is a call that succeeds for
\* the creator (manual path) or for the oracle authority (oracle path).
C15_OnlyAuthorisedResolves == [] C15_Rejected /\ [][C15_Step]_vars
\* a light market resolved before its resolve date: the oracle authority did it
C15_Witness ==
  /\ IsLight
  /\ Resolved
  /\ market.oracle_authority = "bob"
  /\ now < market.resolve_date

\* C16: on a light market whose oracle_authority is the default identity,
\* resolve_light_market_oracle fails with OracleNotSet for every caller,
\* price account, attested price and outcome.
C16_OracleNotSet ==
  (IsLight /\ market.oracle_authority = DefaultPubkey) =>
    \A u \in Users, f \in PriceFeeds, p \in Prices, o \in BOOLEAN :
      resolve_light_market_oracle_err(u, f, p, o) = "OracleNotSet"

\* The price account of the call made under SpecOracle, described by the
\* rules the price feed reader is to follow and not by its code.
FeedMode == arg.price_feed.key # SystemProgram
WellFormed(f) == f.len >= 240 /\ f.magic = Big(<<27, 1284, 7316>>)
ExponentInRange(f) == -12 <= f.expo /\ f.expo <= 0
\* pub_slot is nonzero and at most 25 slots behind the current slot
Fresh(f) == f.pub_slot # 0 /\ slot - f.pub_slot <= 25
Trading(f) == f.status = 1
Accepted(f) ==
  WellFormed(f) /\ ExponentInRange(f) /\ Fresh(f) /\ Trading(f)
\* the price of the call: the attested one in sentinel mode, the feed's
\* aggregate price otherwise
CallPrice == IF FeedMode THEN arg.price_feed.price ELSE arg.attested_price
\* YES iff (oracle_above and p >= threshold) or (not oracle_above and
\* p <= threshold)
Dictated(p) ==
  \/ market.oracle_above /\ p >= market.oracle_threshold
  \/ ~market.oracle_above /\ p <= market.oracle_threshold
\* the result of the call of SpecOracle with another attested price
OracleCallErr(attested_price) ==
  resolve_light_market_oracle_err("bob", arg.price_feed, attested_price,
                                  arg.outcome)
OracleOpen == IsLight /\ ~market.resolved /\ market.oracle_authority = "bob"

\* C17: the oracle path records the outcome the price dictates.  For a call
\* by the oracle authority on an open market whose price is available
\* (sentinel mode, or a price account the reader accepts): the call succeeds
\* when the outcome passed equals (oracle_above and p >= threshold) or (not
\* oracle_above and p <= threshold) for the effective price p, and fails with
\* OraclePriceMismatch otherwise; and a market resolved by the call holds
\* outcome 1 (YES) iff that comparison is true, 2 (NO) otherwise.
C17_OutcomeDictatedByPrice ==
  /\ (OracleOpen /\ (FeedMode => Accepted(arg.price_feed))) =>
       OracleCallErr(arg.attested_price)
         = IF arg.outcome = Dictated(CallPrice) THEN "Ok"
           ELSE "OraclePriceMismatch"
  /\ (IsLight /\ market.resolved) =>
       /\ market.outcome = IF Dictated(CallPrice) THEN 1 ELSE 2
       /\ arg.outcome = Dictated(CallPrice)
       /\ ~market.is_active
\* resolved YES on a "price <= threshold" market by a price equal to the
\* threshold
C17_Witness ==
  /\ IsLight /\ market.resolved
  /\ ~market.oracle_above
  /\ CallPrice = market.oracle_threshold
  /\ market.outcome = 1

\* C18: in feed mode the attested price has no influence.  For a price
\* account other than the sentinel, the call returns the same result for
\* every attested price, and a market resolved by the call holds the outcome
\* dictated by the price of the account, not by the attested price.
C18_AttestedIgnoredInFeedMode ==
  FeedMode =>
    /\ IsLight =>
         \A p \in Prices : OracleCallErr(p) = OracleCallErr(arg.attested_price)
    /\ (IsLight /\ market.resolved) =>
         market.outcome = IF Dictated(arg.price_feed.price) THEN 1 ELSE 2
\* resolved from a price account while the attested price dictated the
\* other outcome
C18_Witness ==
  /\ IsLight /\ market.resolved
  /\ FeedMode
  /\ Dictated(arg.attested_price) # Dictated(arg.price_feed.price)

\* C19: the freshness window of the price feed reader.  A well-formed price
\* account with an exponent in range whose pub_slot is 0 or more than 25
\* slots behind the current slot is rejected with OraclePriceStale whatever its
\* price and status (so is the oracle call on an open market); with
\* pub_slot exactly 25 slots behind and status 1 it is accepted, with 26 it is
\* rejected; and a market resolved from a price account was resolved from a
\* fresh one.
C19_FreshnessWindow ==
  FeedMode =>
    LET f == arg.price_feed
        r == read_pyth_price(f, slot)
    IN  /\ (WellFormed(f) /\ ExponentInRange(f) /\ ~Fresh(f)) =>
             /\ r = <<"OraclePriceStale">>
             /\ OracleOpen => OracleCallErr(arg.attested_price) = "OraclePriceStale"
        /\ (WellFormed(f) /\ ExponentInRange(f) /\ Trading(f)) =>
             /\ f.pub_slot = slot - 25 => r = <<"Ok", f.price>>
             /\ f.pub_slot = slot - 26 => r = <<"OraclePriceStale">>
             /\ f.pub_slot = 0 => r = <<"OraclePriceStale">>
        /\ (IsLight /\ market.resolved) => Fresh(f)
\* resolved from a price account published exactly 25 slots ago
C19_Witness ==
  /\ IsLight /\ market.resolved
  /\ FeedMode
  /\ arg.price_feed.pub_slot = slot - 25

\* C20: read_pyth_price reports the first failing check in the order length,
\* magic, exponent, publish slot, status.  A record shorter than 240 bytes or
\* with a wrong magic gives InvalidOracleAccount whatever the other fields; a
\* well-formed record with an exponent outside [-12, 0] gives
\* InvalidOracleExponent even if it is stale or not trading; a well-formed
\* record with an exponent in range gives OraclePriceStale if it is stale or
\* its status is not 1; a record passing all five checks gives its price.
C20_FirstFailingCheck ==
  FeedMode =>
    LET f == arg.price_feed
        r == read_pyth_price(f, slot)
    IN  r = IF f.len < 240 THEN <<"InvalidOracleAccount">>
            ELSE IF f.magic # Big(<<27, 1284, 7316>>)
              THEN <<"InvalidOracleAccount">>
            ELSE IF f.expo < -12 \/ f.expo > 0
              THEN <<"InvalidOracleExponent">>
            ELSE IF ~Fresh(f) THEN <<"OraclePriceStale">>
            ELSE IF f.status # 1 THEN <<"OraclePriceStale">>
            ELSE <<"Ok", f.price>>
\* resolved from a price account whose exponent is the lowest accepted one
C20_Witness ==
  /\ IsLight /\ market.resolved
  /\ FeedMode
  /\ arg.price_feed.expo = -12
  /\ arg.price_feed.status = 1

\* The shielded pool aggregate under SpecShielded.
PoolExists == shielded_pool.kind = "ShieldedPoolAggregate"
PoolFinalized == PoolExists /\ shielded_pool.is_finalized
\* the result of submit_shielded_aggregate signed by u, for every input
SubmitAlways(u, err) ==
  \A y \in Ciphertexts, n \in Ciphertexts, t \in ShieldedCounts, f \in BOOLEAN :
    submit_shielded_aggregate_err(u, y, n, t, f) = err

\* C21, rejection: a signer other than pool.mxe_authority gets
\* NotMxeAuthority
C21_OthersRejected ==
  PoolExists =>
    \A u \in Users :
      u # shielded_pool.mxe_authority => SubmitAlways(u, "NotMxeAuthority")
\* C21, steps: mxe_authority keeps its value, and the record changes only
\* where the bound authority is an identity that can sign
C21_Step ==
  PoolExists =>
    /\ shielded_pool'.kind = "ShieldedPoolAggregate"
    /\ shielded_pool'.mxe_authority = shielded_pool.mxe_authority
    /\ shielded_pool' # shielded_pool =>
         /\ shielded_pool.mxe_authority \in Users
         /\ \E y \in Ciphertexts, n \in Ciphertexts, t \in ShieldedCounts,
               f \in BOOLEAN :
              /\ y.len <= 80 /\ n.len <= 80
              /\ shielded_pool' =
                   [shielded_pool EXCEPT !.encrypted_yes_total = y,
                                         !.encrypted_no_total = n,
                                         !.total_shielded_bets = t,
                                         !.last_updated = now,
                                         !.is_finalized = f]
\* C21: only the authority bound at init_shielded_pool can change a
\* ShieldedPoolAggregate.  submit_shielded_aggregate signed by any other
\* identity fails with NotMxeAuthority, for every input and whether or not
\* the pool is finalized, and a failed instruction changes nothing; a step
\* that changes the record is a submission the bound authority can sign; and
\* mxe_authority never changes once the record exists.
C21_OnlyMxeAuthority == []C21_OthersRejected /\ [][C21_Step]_vars
\* an aggregate written by the bound authority bob, alice being another
\* identity
C21_Witness ==
  /\ PoolExists
  /\ shielded_pool.mxe_authority = "bob"
  /\ shielded_pool.encrypted_yes_total # EmptyVec
  /\ ~shielded_pool.is_finalized

\* C22 as stated: on a finalized pool every submit_shielded_aggregate fails
\* with ShieldedPoolFinalized, whoever signs it.
C22_AlwaysShieldedPoolFinalized ==
  PoolFinalized => \A u \in Users : SubmitAlways(u, "ShieldedPoolFinalized")
\* C22, rejection: ShieldedPoolFinalized for the bound authority,
\* NotMxeAuthority for every other signer
C22_Rejected ==
  PoolFinalized =>
    \A u \in Users :
      SubmitAlways(u, IF u = shielded_pool.mxe_authority
                        THEN "ShieldedPoolFinalized" ELSE "NotMxeAuthority")
\* C22, steps: a finalized record never changes
C22_Step == PoolFinalized => shielded_pool' = shielded_pool
\* C22: finalisation of a ShieldedPoolAggregate is a one-way latch.  Once
\* is_finalized is true it stays true in every later state, and
\* encrypted_yes_total, encrypted_no_total and total_shielded_bets never
\* change again; every later submit_shielded_aggregate fails, with
\* ShieldedPoolFinalized when signed by the bound authority and with
\* NotMxeAuthority when signed by anyone else.
C22_FinalizedIsLatched == []C22_Rejected /\ [][C22_Step]_vars
\* a pool finalized at an earlier time, holding a non-empty aggregate
C22_Witness ==
  /\ PoolFinalized
  /\ shielded_pool.last_updated < now
  /\ shielded_pool.total_shielded_bets = 1
  /\ shielded_pool.encrypted_yes_total # shielded_pool.encrypted_no_total

\* The shielded wager of SpecShieldedBet: the market is open and u has no
\* shielded wager on it, so that only the byte lengths decide.
ShieldedOpen(u) ==
  /\ sbets[u].kind = "None"
  /\ \/ IsPlain /\ market.status = "Active" /\ now < market.expires_at
     \/ IsLight /\ market.is_active /\ now < market.resolve_date
\* the result of the shielded wager instruction of the market's variant
ShieldedErr(u, enc_len, zk_len) ==
  IF IsPlain THEN shielded_bet_err(u, enc_len, zk_len, TRUE)
  ELSE place_shielded_light_bet_err(u, enc_len, zk_len, TRUE)
\* the lengths of the ciphertext and of the proof are the expected ones of
\* the variant: le and lz
ExactLengths(u, le, lz) ==
  \A e \in ShieldedEncLens, z \in ShieldedZkLens :
    ShieldedErr(u, e, z) = IF e # le THEN "InvalidEncryptedData"
                           ELSE IF z # lz THEN "InvalidZkProof"
                           ELSE "Ok"

\* C23: a shielded wager is rejected unless encrypted_amount and zk_proof each
\* have exactly the one expected byte length.  In both variants there is one
\* ciphertext length and one proof length such that the wager of an open
\* market is accepted with these and fails with InvalidEncryptedData for
\* every other ciphertext length, with InvalidZkProof for every other proof
\* length.
C23_ExactLengthOnly ==
  \A u \in Users :
    /\ ShieldedOpen(u) =>
         \E le \in ShieldedEncLens, lz \in ShieldedZkLens :
           ExactLengths(u, le, lz)

FIVE_MILLION == Big(<<500, 0>>)
\* the counters of the market that a wager increases
CountOf(m) ==
  IF m.kind = "Market" THEN <<m.total_bets>>
  ELSE <<m.total_bets, m.shielded_bet_count>>
CountPlusOne(m) ==
  IF m.kind = "Market" THEN <<m.total_bets + 1>>
  ELSE <<m.total_bets + 1, m.shielded_bet_count + 1>>
\* C24, steps: what a step that stores a shielded wager of u does
C24_Step ==
  \A u \in Users :
    (sbets[u].kind = "None" /\ sbets'[u].kind # "None") =>
      /\ IsPlain \/ IsLight
      /\ BAdd(lamports'[u], FIVE_MILLION) = lamports[u]
      /\ treasury' = BAdd(treasury, FIVE_MILLION)
      /\ \A v \in Users \ {u} : lamports'[v] = lamports[v]
      /\ CountOf(market') = CountPlusOne(market)
      /\ market'.yes_pool = market.yes_pool
      /\ market'.no_pool = market.no_pool
      /\ market' =
           IF IsPlain
             THEN [market EXCEPT !.total_bets = market'.total_bets]
             ELSE [market EXCEPT
                     !.total_bets = market'.total_bets,
                     !.shielded_bet_count = market'.shielded_bet_count]
      /\ vault' = vault
      /\ bets' = bets
      /\ DOMAIN sbets'[u] =
           {"kind", "bettor", "encrypted_amount", "outcome", "zk_proof",
            IF IsPlain THEN "resolved" ELSE "claimed"}
\* C24: a successful shielded wager moves exactly the privacy fee of
\* 5_000_000 lamports from the bettor to the treasury, increases total_bets by
\* 1 (and shielded_bet_count by 1 on a light market), and leaves yes_pool,
\* no_pool, every other field of the market, the vault and the plain wagers
\* unchanged; the record stored holds the bettor, the ciphertext, the
\* outcome and the proof, and no amount.
C24_ShieldedWagerEffect == [][C24_Step]_vars
\* a shielded wager stored on a market whose pools and vault hold a plain
\* wager
C24_Witness ==
  /\ sbets["bob"].kind # "None"
  /\ market.total_bets = 2
  /\ BLt(Zero, vault)
  /\ BLt(Zero, IF IsPlain THEN market.yes_pool ELSE market.no_pool)

\* C25, results: question_len is question.len(), the length in bytes, which
\* is at least the number of characters
C25_Results ==
  \A u \in Creators, q \in QuestionLens, e \in Expiries :
    /\ market.kind = "None" =>
         create_market_err(u, q, e) =
           IF q > 280 THEN "QuestionTooLong"
           ELSE IF e <= now THEN "InvalidExpiry"
           ELSE "Ok"
    /\ (IsPlain /\ market.creator = u /\ market.expires_at = e) =>
         create_market_err(u, q, e) = "AccountAlreadyInUse"
\* C25, steps: the Market a step creates, and no step replaces a Market
C25_Step ==
  /\ (market.kind = "None" /\ market'.kind = "Market") =>
       /\ market'.status = "Active"
       /\ market'.outcome = <<>>
       /\ market'.resolved_at = <<>>
       /\ market'.yes_pool = <<>> /\ market'.no_pool = <<>>
       /\ market'.total_bets = 0
       /\ market'.creator \in Creators
       /\ market'.expires_at > now
       /\ UNCHANGED <<now, bets, sbets, vault, treasury, lamports>>
  /\ IsPlain =>
       /\ market'.kind = "Market"
       /\ market'.creator = market.creator
       /\ market'.expires_at = market.expires_at
\* C25: create_market at a free address fails with QuestionTooLong when the
\* question is longer than 280 and with InvalidExpiry when the question fits
\* and expires_at <= now (expires_at = now included), creating nothing, and
\* succeeds otherwise; the Market created has status Active, no outcome, no
\* resolved_at, yes_pool = no_pool = 0 and total_bets = 0; a second
\* create_market with the same creator and expires_at is rejected and the
\* Market is not replaced.
C25_CreateMarket == []C25_Results /\ [][C25_Step]_vars
\* a Market just created with the nearest admissible expiry
C25_Witness ==
  /\ IsPlain
  /\ market.status = "Active"
  /\ market.total_bets = 0
  /\ market.expires_at = now + 1

\* C26, states: status, outcome and resolved_at agree
C26_Consistent ==
  /\ IsPlain =>
       /\ market.status \in {"Active", "Resolved"}
       /\ market.status = "Resolved" <=> market.outcome # <<>>
       /\ market.status = "Resolved" <=> market.resolved_at # <<>>
       /\ market.outcome \in {<<>>, <<TRUE>>, <<FALSE>>}
  /\ IsLight =>
       /\ market.resolved <=> ~market.is_active
       /\ market.resolved <=> market.outcome \in {1, 2}
       /\ market.outcome \in {0, 1, 2}
\* C26, steps: Active -> Resolved is the only transition and Resolved is
\* terminal
C26_Step ==
  /\ IsPlain =>
       /\ market'.kind = "Market"
       /\ market'.status # market.status =>
            market.status = "Active" /\ market'.status = "Resolved"
       /\ market.status = "Resolved" =>
            /\ market'.status = "Resolved"
            /\ market'.outcome = market.outcome
            /\ market'.resolved_at = market.resolved_at
  /\ IsLight =>
       /\ market'.kind = "LightMarketStub"
       /\ market.resolved =>
            /\ market'.resolved /\ ~market'.is_active
            /\ market'.outcome = market.outcome
\* C26: market lifecycle.  The only status transition of a plain market is
\* Active -> Resolved and Resolved is terminal; Expired and Disputed are never
\* reached; in every reachable state the outcome is present iff the market is
\* resolved (plain: status = Resolved <=> outcome = Some(_) <=> resolved_at =
\* Some(_); light: resolved <=> not is_active <=> outcome in {1, 2}), and a
\* resolved market keeps its outcome.
C26_Lifecycle == []C26_Consistent /\ [][C26_Step]_vars
\* a plain market resolved NO at an earlier time
C26_Witness ==
  /\ IsPlain
  /\ market.status = "Resolved"
  /\ market.outcome = <<FALSE>>
  /\ market.resolved_at # <<>>
  /\ market.resolved_at[1] < now

\* C27: an attempt to resolve an already resolved market is rejected with
\* MarketAlreadyResolved on every path, for an otherwise authorised caller:
\* resolve_market by the creator of a plain market, resolve_light_market by
\* the creator of a light market, resolve_light_market_oracle by its oracle
\* authority, for every outcome, price account and attested price.
C27_AlreadyResolvedEverywhere ==
  Resolved =>
    /\ IsPlain =>
         \A o \in BOOLEAN :
           resolve_market_err(market.creator, o) = "MarketAlreadyResolved"
    /\ IsLight =>
         /\ \A o \in BOOLEAN :
              resolve_light_market_err(market.creator, o)
                = "MarketAlreadyResolved"
         /\ market.oracle_authority \in Users =>
              \A f \in PriceFeeds, p \in Prices, o \in BOOLEAN :
                resolve_light_market_oracle_err(market.oracle_authority,
                                                f, p, o)
                  = "MarketAlreadyResolved"

\* The tip of SpecTip; the share of a tip is floor(amount * percent / 100).
Share(amount, percent) == BDiv(BMul(amount, FromInt(percent)), FromInt(100))
\* C28, rejection: a tip below MIN_TIP fails with TipTooSmall
C28_Rejected ==
  BLt(arg, Big(<<100, 0>>)) =>
    \A tipper \in Users, dj \in Users :
      tip_dj_err(tipper, dj, arg) = "TipTooSmall"
\* C28, steps: the DJ of a tip is credited 90% of it, the treasury the rest
C28_Step ==
  /\ treasury' # treasury =>
       /\ BLe(Big(<<100, 0>>), arg)
       /\ BAdd(treasury', Share(arg, 90)) = BAdd(treasury, arg)
  /\ \A dj \in Users :
       BLt(lamports[dj], lamports'[dj]) =>
         lamports'[dj] = BAdd(lamports[dj], Share(arg, 90))
\* C28: tip_dj with amount >= MIN_TIP credits the DJ 90% of the tip and the
\* treasury the remainder (a tip of 100_000_000 credits the DJ exactly
\* 90_000_000), the two parts adding up to the amount; a tip below MIN_TIP
\* fails with TipTooSmall and moves nothing.
C28_TipSplit == []C28_Rejected /\ [][C28_Step]_vars

\* The social recovery record under SpecRecovery.
RecoveryExists == social_recovery.kind = "SocialRecovery"
Members(vec) == {vec[i] : i \in 1 .. Len(vec)}
\* C29, rejection: NotAGuardian for a signer outside guardians,
\* AlreadyApproved for a guardian in approvals, Unauthorized for a guardian
\* naming another wallet than the one recorded
C29_Rejected ==
  RecoveryExists =>
    \A u \in RecoverySigners, w \in NewWallets :
      approve_social_recovery_err(u, w) =
        IF u \notin Members(social_recovery.guardians) THEN "NotAGuardian"
        ELSE IF u \in Members(social_recovery.approvals)
          THEN "AlreadyApproved"
        ELSE IF social_recovery.new_wallet \notin {<<>>, <<w>>}
          THEN "Unauthorized"
        ELSE "Ok"
\* C29, states: approvals is a duplicate-free list of at most 5 guardians
C29_Approvals ==
  RecoveryExists =>
    LET a == social_recovery.approvals
    IN  /\ Len(a) <= 5
        /\ \A i \in 1 .. Len(a), j \in 1 .. Len(a) : a[i] = a[j] => i = j
        /\ Members(a) \subseteq Members(social_recovery.guardians)
        /\ a # <<>> => social_recovery.new_wallet # <<>>
\* C29, steps: an approval is appended for the wallet recorded, and the
\* wallet recorded and the guardians never change
C29_Step ==
  RecoveryExists =>
    /\ social_recovery'.kind = "SocialRecovery"
    /\ social_recovery'.guardians = social_recovery.guardians
    /\ social_recovery.new_wallet # <<>> =>
         social_recovery'.new_wallet = social_recovery.new_wallet
    /\ \/ social_recovery'.approvals = social_recovery.approvals
       \/ \E u \in Members(social_recovery.guardians)
                     \ Members(social_recovery.approvals) :
            /\ social_recovery'.approvals
                 = Append(social_recovery.approvals, u)
            /\ social_recovery'.new_wallet # <<>>
\* C29: social recovery approvals come only from configured guardians and at
\* most once each.  approve_social_recovery by a signer not in guardians
\* fails with NotAGuardian, a repeated approval by the same guardian fails
\* with AlreadyApproved; in every reachable state approvals is a
\* duplicate-free list of at most 5 members of guardians; every approval is
\* recorded for the same new_wallet, which never changes once set (an
\* approval naming another wallet fails with Unauthorized).
C29_GuardianApprovals ==
  [](C29_Rejected /\ C29_Approvals) /\ [][C29_Step]_vars
\* all five guardians have approved the same new wallet
C29_Witness ==
  /\ RecoveryExists
  /\ Len(social_recovery.approvals) = 5
  /\ social_recovery.new_wallet = <<"w2">>

\* C30, results: the creator's resolve_market succeeds on an Active market
C30_CreatorSucceeds ==
  (IsPlain /\ market.status = "Active") =>
    \A o \in BOOLEAN : resolve_market_err(market.creator, o) = "Ok"
\* C30, steps: what the resolution of a plain market writes
C30_Step ==
  (IsPlain /\ market.status = "Active" /\ market'.status = "Resolved") =>
    /\ market'.outcome \in {<<TRUE>>, <<FALSE>>}
    /\ market'.resolved_at = <<now>>
    /\ market'.yes_pool = market.yes_pool
    /\ market'.no_pool = market.no_pool
    /\ market'.total_bets = market.total_bets
    /\ UNCHANGED <<now, bets, sbets, vault, treasury, lamports>>
\* C30: plain-market lifecycle of the test.  After create_market and a
\* successful place_bet, resolve_market signed by the creator succeeds
\* without any wait for expires_at, for either outcome; it leaves the market
\* Resolved with the outcome given and with yes_pool, no_pool, total_bets,
\* the Bets and the vault as the wager left them.
C30_ResolveWithoutWait == []C30_CreatorSucceeds /\ [][C30_Step]_vars
\* a market holding a wager, resolved YES before its expiry
C30_Witness ==
  /\ IsPlain
  /\ market.status = "Resolved"
  /\ market.outcome = <<TRUE>>
  /\ market.resolved_at # <<>>
  /\ market.resolved_at[1] < market.expires_at
  /\ market.total_bets >= 1
  /\ \E u \in Users : bets[u].kind # "None"
  /\ BLt(Zero, vault)

\* the sum of amount over the Bets of the users in S on the given side,
\* computed without the program's operations
RECURSIVE StakedOn(_, _)
StakedOn(S, side) ==
  IF S = {} THEN Zero
  ELSE LET u == CHOOSE x \in S : TRUE
       IN  BAdd(IF HasBet(u) /\ bets[u].outcome = side
                  THEN bets[u].amount ELSE Zero,
                StakedOn(S \ {u}, side))
\* C34: pool accounting invariant.  In every reachable state of a plain or
\* light market, yes_pool equals the sum of amount over all (non-shielded)
\* Bets on YES and no_pool the sum over all Bets on NO, every Bet has
\* amount > 0, and hence every Bet's amount is <= the pool of its own side.
C34_PoolAccounting ==
  (IsPlain \/ IsLight) =>
    /\ market.yes_pool = StakedOn(Users, TRUE)
    /\ market.no_pool = StakedOn(Users, FALSE)
    /\ \A u \in Users :
         HasBet(u) =>
           /\ BLt(Zero, bets[u].amount)
           /\ BLe(bets[u].amount,
                  IF bets[u].outcome THEN market.yes_pool ELSE market.no_pool)
\* a light market with two Bets on YES, of which one is claimed, and a
\* shielded Bet
C34_Witness ==
  /\ IsLight
  /\ \A u \in Users : HasBet(u) /\ bets[u].outcome
  /\ \E u \in Users : bets[u].claimed
  /\ \E u \in Users : sbets[u].kind # "None"
  /\ BLt(bets["alice"].amount, market.yes_pool)

\* the pool of the side a resolved plain or light market was resolved to
WinningPool ==
  IF IsPlain THEN (IF market.outcome[1] THEN market.yes_pool
                   ELSE market.no_pool)
  ELSE (IF market.outcome = 1 THEN market.yes_pool ELSE market.no_pool)
\* C36: the NoWinningBets guard is never the outcome of a claim.  In every
\* reachable state, a claim on an existing Bet of a resolved market either
\* fails earlier (AlreadyClaimed, BetLost) or finds winning_pool > 0, so no
\* claim divides by zero and no claim returns NoWinningBets.
C36_NeverNoWinningBets ==
  \A u \in Users :
    ((IsPlain \/ IsLight) /\ Resolved /\ HasBet(u)) =>
      /\ ClaimErr(u) # "NoWinningBets"
      /\ ClaimErr(u) \in {"AlreadyClaimed", "BetLost"} \/ BLt(Zero, WinningPool)
      /\ OnWinningSide(u) => BLt(Zero, WinningPool)
\* a market resolved to the side nobody staked on: the claim of the Bet on
\* the other side fails with BetLost
C36_Witness ==
  /\ IsLight
  /\ Resolved
  /\ WinningPool = Zero
  /\ HasBet("bob")
  /\ ~bets["bob"].claimed
  /\ ClaimErr("bob") = "BetLost"

\* C37, states: a CompressedMarket is in the lifecycle state it was created in
C37_InitialState ==
  IsCompressed =>
    /\ market.is_active
    /\ ~market.resolved
    /\ market.outcome = None
    /\ vault = BAdd(market.yes_bets, market.no_bets)
    /\ \A u \in Users : HasBet(u) => ~bets[u].claimed
\* C37, steps: no step on a CompressedMarket changes the lifecycle fields,
\* debits the vault or credits a wallet
C37_Step ==
  IsCompressed =>
    /\ market'.kind = "CompressedMarket"
    /\ market'.is_active = market.is_active
    /\ market'.resolved = market.resolved
    /\ market'.outcome = market.outcome
    /\ BLe(vault, vault')
    /\ \A u \in Users : BLe(lamports'[u], lamports[u])
\* C37: a CompressedMarket never leaves its initial lifecycle state.  After
\* create_compressed_market, no sequence of program operations changes
\* is_active (true), resolved (false) or outcome (None), and no operation
\* ever debits the compressed vault, so stakes deposited by
\* place_compressed_bet are never paid out.
C37_CompressedNeverResolves == []C37_InitialState /\ [][C37_Step]_vars
\* a CompressedMarket past its resolve_date that holds the stakes of both
\* users
C37_Witness ==
  /\ IsCompressed
  /\ now >= market.resolve_date
  /\ \A u \in Users : HasBet(u)
  /\ BLt(Zero, market.yes_bets)
  /\ BLt(Zero, market.no_bets)
  /\ BLt(Zero, vault)

\* C40, the call: on an unresolved light market with a bound oracle
\* authority, the authority's call in sentinel mode with the outcome the
\* attested price dictates succeeds, whatever the clock
C40_OracleSucceeds ==
  (IsLight /\ ~market.resolved /\ market.oracle_authority \in Users) =>
    \A p \in Prices :
      resolve_light_market_oracle_err(market.oracle_authority, Sentinel, p,
                                      Dictated(p)) = "Ok"
\* C40, afterwards: on a resolved light market every wager fails, with
\* MarketNotActive for a bettor who has no Bet (shielded Bet) yet, and the
\* claim of an unclaimed Bet on the winning side succeeds
C40_Closed ==
  (IsLight /\ market.resolved) =>
    \A u \in Users, o \in BOOLEAN :
      /\ \A a \in BetAmounts :
           /\ place_light_bet_err(u, a, o) # "Ok"
           /\ ~HasBet(u) => place_light_bet_err(u, a, o) = "MarketNotActive"
      /\ \A el \in EncLens, zl \in ZkLens :
           /\ place_shielded_light_bet_err(u, el, zl, o) # "Ok"
           /\ sbets[u].kind = "None" =>
                place_shielded_light_bet_err(u, el, zl, o) = "MarketNotActive"
      /\ (OnWinningSide(u) /\ ~bets[u].claimed) =>
           claim_light_winnings_err(u) = "Ok"
RECURSIVE Payouts(_, _)
Payouts(S, unclaimed_only) ==
  IF S = {} THEN Zero
  ELSE LET u == CHOOSE x \in S : TRUE
       IN  BAdd(IF OnWinningSide(u) /\ (unclaimed_only => ~bets[u].claimed)
                  THEN MathPayout(u) ELSE Zero,
                Payouts(S \ {u}, unclaimed_only))
\* C35, the sums: the payouts made and owed together are at most the
\* combined pool, and the vault holds at least the payouts still owed
C35_Solvent ==
  ((IsPlain \/ IsLight) /\ Resolved) =>
    /\ BLe(Payouts(Users, FALSE), BAdd(market.yes_pool, market.no_pool))
    /\ BLe(Payouts(Users, TRUE), vault)
    /\ BLe(BSub(BAdd(market.yes_pool, market.no_pool),
                BSub(Payouts(Users, FALSE), Payouts(Users, TRUE))),
           vault)
\* C35, the claims: every unclaimed Bet on the winning side can be claimed
C35_Claimable ==
  ((IsPlain \/ IsLight) /\ Resolved) =>
    \A u \in Users :
      (OnWinningSide(u) /\ ~bets[u].claimed) => ClaimErr(u) = "Ok"
\* C35: vault solvency.  For a vault that holds exactly the net stakes
\* deposited by wagers, in every reachable state the sum of payouts already
\* made plus the payouts still owed to unclaimed winning Bets is
\* <= yes_pool + no_pool; so after resolution every winning Bet can be
\* claimed successfully in any order of claims, and the vault balance never
\* goes negative (only rounding dust may remain).
C35_VaultSolvency == C35_Solvent /\ C35_Claimable

GuardianExists == elder_guardian.kind = "ElderGuardian"
\* C31, results: execute_recovery succeeds only on a pending recovery whose
\* seven days have passed, cancel_recovery only for the protected wallet and
\* on a pending recovery
C31_Results ==
  GuardianExists =>
    /\ elder_guardian.timelock = 604800
    /\ elder_guardian.recovery_initiated =>
         elder_guardian.recovery_timestamp <= now
    /\ \A u \in Users :
         /\ execute_recovery_err(u) = "Ok" =>
              /\ elder_guardian.recovery_initiated
              /\ now - elder_guardian.recovery_timestamp >= 604800
         /\ cancel_recovery_err(u) = "Ok" =>
              /\ u = elder_guardian.user_wallet
              /\ elder_guardian.recovery_initiated
\* C31, steps: a recovery becomes pending with the time of that step as its
\* recovery_timestamp, keeps it for as long as it is pending, and stops
\* being pending either by a cancel or at least 604800 seconds after that
\* time
C31_Step ==
  GuardianExists =>
    /\ elder_guardian'.kind = "ElderGuardian"
    /\ elder_guardian'.timelock = elder_guardian.timelock
    /\ elder_guardian'.user_wallet = elder_guardian.user_wallet
    /\ (~elder_guardian.recovery_initiated
          /\ elder_guardian'.recovery_initiated) =>
         elder_guardian'.recovery_timestamp = now /\ now' = now
    /\ (elder_guardian.recovery_initiated
          /\ elder_guardian'.recovery_initiated) =>
         elder_guardian'.recovery_timestamp = elder_guardian.recovery_timestamp
    /\ (elder_guardian.recovery_initiated
          /\ ~elder_guardian'.recovery_initiated) =>
         \/ /\ elder_guardian'.canceled
            /\ cancel_recovery_err(elder_guardian.user_wallet) = "Ok"
         \/ /\ ~elder_guardian'.canceled
            /\ now - elder_guardian.recovery_timestamp >= 604800
\* C31: elder-guardian recovery timelock.  execute_recovery succeeds only if
\* a recovery is in progress and now - recovery_timestamp >= timelock (7
\* days, fixed at init); so every successful execute_recovery is preceded by
\* an initiate_recovery at least 604800 seconds earlier with no
\* cancel_recovery in between, and cancel_recovery succeeds only for the
\* user_wallet signer while a recovery is in progress.
C31_RecoveryTimelock == []C31_Results /\ [][C31_Step]_vars
\* a recovery initiated at 1 can be executed, by anyone, at 604801: one second
\* after the seven days of a recovery initiated at 0 would have ended
C31_Witness ==
  /\ GuardianExists
  /\ elder_guardian.recovery_initiated
  /\ elder_guardian.recovery_timestamp = 1
  /\ now = 604801
  /\ execute_recovery_err("bob") = "Ok"
  /\ cancel_recovery_err("bob") # "Ok"

\* C39: in every reachable ElderGuardian state recovery_initiated and
\* canceled are never both true (cancel clears recovery_initiated, initiate
\* clears canceled), so execute_recovery never fails with RecoveryCanceled:
\* after a cancel it fails with RecoveryNotInProgress until a new
\* initiate_recovery.
C39_NeverRecoveryCanceled ==
  GuardianExists =>
    /\ ~(elder_guardian.recovery_initiated /\ elder_guardian.canceled)
    /\ \A u \in Users :
         /\ execute_recovery_err(u) # "RecoveryCanceled"
         /\ elder_guardian.canceled =>
              execute_recovery_err(u) = "RecoveryNotInProgress"
\* a canceled recovery, seven days and more after it was initiated
C39_Witness ==
  /\ GuardianExists
  /\ elder_guardian.canceled
  /\ ~elder_guardian.recovery_initiated
  /\ now >= 604800
  /\ execute_recovery_err("alice") = "RecoveryNotInProgress"

\* the times at which record_bet was called under SpecRate, oldest first
RecordedBets == arg
\* C32: rate limit of 10 bets per hour.  Starting from a zero-initialised
\* RateLimitAccount and with every record_bet preceded by a can_bet that
\* returned Ok at the same clock time, no time interval of 3600 seconds
\* contains more than 10 recorded bets: the eleventh bet counted from any
\* recorded bet comes 3600 seconds after it or later.
C32_TenBetsPerHour ==
  \A i \in 1 .. Len(RecordedBets) - 10 :
    RecordedBets[i + 10] - RecordedBets[i] >= 3600

\* C33: rate-limit cooldown.  With every record_bet preceded by a can_bet
\* that returned Ok at the same clock time, any two consecutively recorded
\* bets of one user are at least 60 seconds apart (a bet attempted sooner
\* fails with BetTooSoon).
C33_Cooldown ==
  /\ \A i \in 1 .. Len(RecordedBets) - 1 :
       RecordedBets[i + 1] - RecordedBets[i] >= 60
  /\ (RecordedBets # <<>>
        /\ now - RecordedBets[Len(RecordedBets)] < 60) =>
       can_bet(rate_limit, now) = "BetTooSoon"

\* C38: with every record_bet preceded by a can_bet that returned Ok at the
\* same clock time and starting from a zero-initialised account,
\* bets_in_window never exceeds 10, so the auto-ban threshold
\* (bets_in_window > 20) is never reached: banned_until stays unset and
\* can_bet never returns UserBanned.
C38_NeverBanned ==
  rate_limit.kind = "RateLimitAccount" =>
    /\ rate_limit.bets_in_window <= 10
    /\ rate_limit.banned_until = None
    /\ \A t \in RateTimes : t >= now => can_bet(rate_limit, t) # "UserBanned"
\* ten bets are counted in the current window and the next one is refused
C38_Witness ==
  /\ rate_limit.kind = "RateLimitAccount"
  /\ rate_limit.bets_in_window = 10
  /\ now - rate_limit.window_start < 3600
  /\ now - rate_limit.last_bet_timestamp >= 60
  /\ can_bet(rate_limit, now) = "RateLimitExceeded"

====
